---- MODULE Spec2Model ----
(***************************************************************************)
(* A model of the gsjp area-mesh library: the six mesh levels (Mesh1 ..    *)
(* Mesh6), their code validation, coordinate binning, extent decoding and  *)
(* neighbour moves, and the Mesh trait's default methods.                  *)
(*                                                                         *)
(* Strings are sequences of ASCII code points ("0" = 48 .. "9" = 57).      *)
(* f64 values are modelled bit-exactly as IEEE-754 binary64 numbers        *)
(* (sign, 53-bit significand, exponent) with round-to-nearest-even; the    *)
(* significand is a little-endian sequence of 15-bit limbs because the     *)
(* model checker's integers have 32 bits.                                  *)
(***************************************************************************)
EXTENDS Integers, Sequences, FiniteSets, TLC

Max(a, b) == IF a >= b THEN a ELSE b
Min(a, b) == IF a <= b THEN a ELSE b

(***************************************************************************)
(* Natural numbers of arbitrary size: little-endian limbs, no high zeros.  *)
(***************************************************************************)
LIMB_BITS == 10 + 5
LIMB == 2 ^ LIMB_BITS

Zeros(n) == [i \in 1..n |-> 0]

Limb(a, i) == IF i <= Len(a) THEN a[i] ELSE 0

RECURSIVE BTrim(_)
BTrim(a) ==
  IF a = <<>> THEN a
  ELSE IF a[Len(a)] = 0 THEN BTrim(SubSeq(a, 1, Len(a) - 1)) ELSE a

RECURSIVE BFromNat(_)
BFromNat(n) == IF n = 0 THEN <<>> ELSE <<n % LIMB>> \o BFromNat(n \div LIMB)

RECURSIVE BCmpAt(_, _, _)
BCmpAt(a, b, i) ==
  IF i = 0 THEN 0
  ELSE IF Limb(a, i) > Limb(b, i) THEN 1
  ELSE IF Limb(a, i) < Limb(b, i) THEN -1
  ELSE BCmpAt(a, b, i - 1)

BCmp(a, b) == BCmpAt(a, b, Max(Len(a), Len(b)))

RECURSIVE BAddAt(_, _, _, _)
BAddAt(a, b, i, c) ==
  IF i > Len(a) /\ i > Len(b) THEN (IF c = 0 THEN <<>> ELSE <<c>>)
  ELSE LET s == Limb(a, i) + Limb(b, i) + c
       IN  <<s % LIMB>> \o BAddAt(a, b, i + 1, s \div LIMB)

BAdd(a, b) == BTrim(BAddAt(a, b, 1, 0))

RECURSIVE BSubAt(_, _, _, _)
BSubAt(a, b, i, c) ==
  IF i > Len(a) THEN <<>>
  ELSE LET d == Limb(a, i) - Limb(b, i) - c
       IN  IF d < 0 THEN <<d + LIMB>> \o BSubAt(a, b, i + 1, 1)
           ELSE <<d>> \o BSubAt(a, b, i + 1, 0)

\* a - b for a >= b
BSub(a, b) == BTrim(BSubAt(a, b, 1, 0))

RECURSIVE BMulSmallAt(_, _, _, _)
BMulSmallAt(a, k, i, c) ==
  IF i > Len(a) THEN (IF c = 0 THEN <<>> ELSE <<c>>)
  ELSE LET p == a[i] * k + c
       IN  <<p % LIMB>> \o BMulSmallAt(a, k, i + 1, p \div LIMB)

\* a * k for 0 <= k <= LIMB
BMulSmall(a, k) == BTrim(BMulSmallAt(a, k, 1, 0))

RECURSIVE BMulAt(_, _, _)
BMulAt(a, b, j) ==
  IF j > Len(b) THEN <<>>
  ELSE BAdd(Zeros(j - 1) \o BMulSmall(a, b[j]), BMulAt(a, b, j + 1))

BMul(a, b) == BTrim(BMulAt(a, b, 1))

RECURSIVE BDivSmallAt(_, _, _, _)
BDivSmallAt(a, k, i, r) ==
  IF i = 0 THEN <<>>
  ELSE LET cur == r * LIMB + a[i]
       IN  Append(BDivSmallAt(a, k, i - 1, cur % k), cur \div k)

\* a * 2^k and floor(a / 2^k)
BShl(a, k) ==
  IF a = <<>> THEN <<>>
  ELSE Zeros(k \div LIMB_BITS) \o BMulSmall(a, 2 ^ (k % LIMB_BITS))

BShr(a, k) ==
  IF k \div LIMB_BITS >= Len(a) THEN <<>>
  ELSE LET hi == SubSeq(a, (k \div LIMB_BITS) + 1, Len(a))
       IN  BTrim(BDivSmallAt(hi, 2 ^ (k % LIMB_BITS), Len(hi), 0))

RECURSIVE NatBitLen(_)
NatBitLen(n) == IF n = 0 THEN 0 ELSE 1 + NatBitLen(n \div 2)

BBitLen(a) ==
  IF a = <<>> THEN 0 ELSE LIMB_BITS * (Len(a) - 1) + NatBitLen(a[Len(a)])

RECURSIVE BToNatAt(_, _)
BToNatAt(a, i) == IF i > Len(a) THEN 0 ELSE a[i] + LIMB * BToNatAt(a, i + 1)

\* the value of a, for a < 2^30
BToNat(a) == BToNatAt(a, 1)

(***************************************************************************)
(* f64: sign * mant * 2^exp, mant = <<>> (zero) or exactly MANT_BITS bits. *)
(***************************************************************************)
MANT_BITS == 52 + 1

FZero == [sign |-> 1, mant |-> <<>>, exp |-> 0]

IsZero(a) == a.mant = <<>>

\* s * q * 2^e for a q of MANT_BITS or MANT_BITS + 1 bits
FNorm(s, q, e) ==
  IF BBitLen(q) > MANT_BITS
  THEN [sign |-> s, mant |-> BShr(q, 1), exp |-> e + 1]
  ELSE [sign |-> s, mant |-> q, exp |-> e]

\* q rounded up or not: c compares the bits cut off with half of the last
\* bit kept, and a tie goes to the even q
FTie(s, q, e, c, sticky) ==
  FNorm(s, IF c > 0 \/ (c = 0 /\ (sticky \/ q[1] % 2 = 1))
           THEN BAdd(q, <<1>>) ELSE q, e)

\* the low k bits of M are cut off, q = floor(M / 2^k)
FCut(s, M, E, sticky, k, q) ==
  FTie(s, q, E + k, BCmp(BSub(M, BShl(q, k)), BShl(<<1>>, k - 1)), sticky)

\* M has L bits
FFit(s, M, E, sticky, L) ==
  IF L <= MANT_BITS
  THEN [sign |-> s, mant |-> BShl(M, MANT_BITS - L), exp |-> E - (MANT_BITS - L)]
  ELSE FCut(s, M, E, sticky, L - MANT_BITS, BShr(M, L - MANT_BITS))

\* round the exact value s * M * 2^E (plus a positive remainder below the
\* last bit of M when sticky) to the nearest f64, ties to even
FRound(s, M, E, sticky) ==
  IF M = <<>> THEN FZero ELSE FFit(s, M, E, sticky, BBitLen(M))

\* the f64 n * 2^e for a natural n < 2^30 (exact)
FLit(n, e) == FRound(1, BFromNat(n), e, FALSE)

FNeg(a) == IF IsZero(a) THEN a ELSE [a EXCEPT !.sign = -a.sign]

\* the sum of sa * Ma * 2^e and sb * Mb * 2^e, c comparing Ma with Mb
FSum(sa, Ma, sb, Mb, e, c) ==
  FRound(IF sa = sb \/ c >= 0 THEN sa ELSE sb,
         IF sa = sb THEN BAdd(Ma, Mb)
         ELSE IF c >= 0 THEN BSub(Ma, Mb) ELSE BSub(Mb, Ma),
         e, FALSE)

FAligned(sa, Ma, sb, Mb, e) == FSum(sa, Ma, sb, Mb, e, BCmp(Ma, Mb))

FAdd(a, b) ==
  IF IsZero(a) THEN b
  ELSE IF IsZero(b) THEN a
  ELSE FAligned(a.sign, BShl(a.mant, a.exp - Min(a.exp, b.exp)),
                b.sign, BShl(b.mant, b.exp - Min(a.exp, b.exp)),
                Min(a.exp, b.exp))

FSub(a, b) == FAdd(a, FNeg(b))

FMul(a, b) ==
  IF IsZero(a) \/ IsZero(b) THEN FZero
  ELSE FRound(a.sign * b.sign, BMul(a.mant, b.mant), a.exp + b.exp, FALSE)

\* n more bits of the quotient q of a long division by d with remainder r
RECURSIVE DivBits(_, _, _, _)
DivBits(r, d, q, n) ==
  IF n = 0 \/ Len(q) < 0 THEN <<q, r>>  \* (Len(q) keeps q evaluated)
  ELSE IF BCmp(BAdd(r, r), d) >= 0
  THEN DivBits(BSub(BAdd(r, r), d), d, BAdd(BAdd(q, q), <<1>>), n - 1)
  ELSE DivBits(BAdd(r, r), d, BAdd(q, q), n - 1)

FQuot(s, e, qr) == FRound(s, qr[1], e, qr[2] # <<>>)

\* a / b for b # 0
FDiv(a, b) ==
  IF IsZero(a) THEN FZero
  ELSE FQuot(a.sign * b.sign, a.exp - b.exp - (MANT_BITS + 2),
             IF BCmp(a.mant, b.mant) >= 0
             THEN DivBits(BSub(a.mant, b.mant), b.mant, <<1>>, MANT_BITS + 2)
             ELSE DivBits(a.mant, b.mant, <<>>, MANT_BITS + 2))

FIsNeg(d) == ~IsZero(d) /\ d.sign = -1

FLt(a, b) == FIsNeg(FSub(a, b))
FLe(a, b) == ~FIsNeg(FSub(b, a))

\* the integer part of |a| and whether |a| has a fractional part
FIntPart(a) ==
  IF IsZero(a) THEN <<>>
  ELSE IF a.exp >= 0 THEN BShl(a.mant, a.exp)
  ELSE BShr(a.mant, -a.exp)

FHasFrac(a) ==
  ~IsZero(a) /\ a.exp < 0 /\ BShl(BShr(a.mant, -a.exp), -a.exp) # a.mant

\* f64::floor
FFloor(a) ==
  FRound(a.sign,
         IF a.sign = -1 /\ FHasFrac(a) THEN BAdd(FIntPart(a), <<1>>)
         ELSE FIntPart(a),
         0, FALSE)

\* the value of an integer part, saturating at 255
SatU8(ip) == IF BBitLen(ip) > 8 THEN 255 ELSE BToNat(ip)

\* `x as u8`: truncation toward zero, saturating at 0 and 255
F_as_u8(a) == IF a.sign = -1 THEN 0 ELSE SatU8(FIntPart(a))

(***************************************************************************)
(* Results: Ok(value), Err(error) and a panic (a failed unwrap, an         *)
(* unreachable!() or an arithmetic overflow), for codes, f64 values and    *)
(* directions; and the ways a function goes on with the result of a call.  *)
(***************************************************************************)
OkC(c)   == [kind |-> "Ok", code |-> c, err |-> "none"]
ErrC(e)  == [kind |-> "Err", code |-> <<>>, err |-> e]
PanicC   == [kind |-> "Panic", code |-> <<>>, err |-> "panic"]

OkF(x)   == [kind |-> "Ok", val |-> x]
PanicF   == [kind |-> "Panic", val |-> FZero]

OkD(d)   == [kind |-> "Ok", dir |-> d, err |-> "none"]
ErrD(e)  == [kind |-> "Err", dir |-> "None", err |-> e]
PanicD   == [kind |-> "Panic", dir |-> "None", err |-> "panic"]

\* `r?` in a function that returns a mesh: a failure of r is returned, and
\* F goes on with the code of the mesh r
TryC(r, F(_)) == IF r.kind # "Ok" THEN r ELSE F(r.code)

\* `r.unwrap()` of a mesh in a function that returns a mesh
UnwrapC(r, F(_)) == IF r.kind # "Ok" THEN PanicC ELSE F(r.code)

\* `r.unwrap()` of a mesh in a function that returns an f64
UnwrapCF(r, F(_)) == IF r.kind # "Ok" THEN PanicF ELSE F(r.code)

\* an f64 whose computation may have panicked, in a function that returns
\* an f64, and in one that returns a mesh
UnwrapF(r, F(_)) == IF r.kind # "Ok" THEN PanicF ELSE F(r.val)
UnwrapFC(r, F(_)) == IF r.kind # "Ok" THEN PanicC ELSE F(r.val)

(***************************************************************************)
(* Strings and the standard library's conversions.                         *)
(***************************************************************************)
Ch0 == 48
ChPlus == 43
ChDot == 46

IsDigit(c) == c \in Ch0 .. (Ch0 + 9)

\* A String is the sequence of its UTF-8 bytes.  str::is_char_boundary(i)
\* for a 0-based byte index i: the byte at i is no continuation byte.  A
\* slice &s[a..b] panics when a or b is no character boundary.
is_char_boundary(s, i) ==
  i = 0 \/ i = Len(s) \/ (i < Len(s) /\ ~(s[i + 1] \in 128 .. 191))

\* char::to_digit(10): -1 stands for None
to_digit(c) == IF IsDigit(c) THEN c - Ch0 ELSE -1

\* the str comparison of Rust: lexicographic by bytes
RECURSIVE StrLtAt(_, _, _)
StrLtAt(a, b, i) ==
  IF i > Len(b) THEN FALSE
  ELSE IF i > Len(a) THEN TRUE
  ELSE IF a[i] < b[i] THEN TRUE
  ELSE IF a[i] > b[i] THEN FALSE
  ELSE StrLtAt(a, b, i + 1)

StrLt(a, b) == StrLtAt(a, b, 1)

\* u8::to_string and format!("{}", n): decimal, no padding
RECURSIVE to_string(_)
to_string(n) ==
  IF n < 10 THEN <<Ch0 + n>> ELSE Append(to_string(n \div 10), Ch0 + (n % 10))

\* format!("{:02}", n): at least two digits, zero padded
format02(n) == IF n < 10 THEN <<Ch0, Ch0 + n>> ELSE to_string(n)

RECURSIVE DigitsValue(_)
DigitsValue(s) ==
  IF s = <<>> THEN 0
  ELSE 10 * DigitsValue(SubSeq(s, 1, Len(s) - 1)) + (s[Len(s)] - Ch0)

AllDigits(s) == s # <<>> /\ \A i \in 1..Len(s) : IsDigit(s[i])

\* str::parse::<u8>() on a string of at most three characters: an optional
\* "+" and then digits, at most 255; -1 stands for Err
parse_u8(s) ==
  LET d == IF s # <<>> /\ s[1] = ChPlus THEN Tail(s) ELSE s
  IN  IF AllDigits(d) /\ DigitsValue(d) <= 255 THEN DigitsValue(d) ELSE -1

\* str::parse::<f64>() on a two-character string over digits, "+" and ".":
\* "dd", "+d", "d." and ".d" are numbers, everything else is Err (PanicF
\* stands for the Err that the callers unwrap)
parse_f64(s) ==
  IF AllDigits(s) THEN OkF(FLit(DigitsValue(s), 0))
  ELSE IF Len(s) = 2 /\ s[1] = ChPlus /\ IsDigit(s[2]) THEN OkF(FLit(s[2] - Ch0, 0))
  ELSE IF Len(s) = 2 /\ IsDigit(s[1]) /\ s[2] = ChDot THEN OkF(FLit(s[1] - Ch0, 0))
  ELSE IF Len(s) = 2 /\ s[1] = ChDot /\ IsDigit(s[2])
       THEN OkF(FDiv(FLit(s[2] - Ch0, 0), FLit(10, 0)))
  ELSE PanicF

(***************************************************************************)
(* The constants of the program (the `const` items and the bounds that     *)
(* validate_mesh1_code derives from them).  They are evaluated once, when  *)
(* the program starts, and read from this record afterwards.               *)
(***************************************************************************)
VARIABLE consts

(***************************************************************************)
(* lib.rs: the domain constants and the coordinate.                        *)
(***************************************************************************)
NORTHERNMOST == FLit(46, 0)
SOUTHERNMOST == FLit(20, 0)
EASTERNMOST  == FLit(154, 0)
WESTERNMOST  == FLit(122, 0)

validate_lat(lat) == FLe(consts.SOUTHERNMOST, lat) /\ FLe(lat, consts.NORTHERNMOST)
validate_lon(lon) == FLe(consts.WESTERNMOST, lon) /\ FLe(lon, consts.EASTERNMOST)

\* Coordinate::new: TRUE when it returns Ok
Coordinate_new(lat, lon) == validate_lat(lat) /\ validate_lon(lon)

\* contains_coordinate: TRUE when it returns Ok, FALSE for Err(OutOfRange)
contains_coordinate(coord) == validate_lat(coord.lat) /\ validate_lon(coord.lon)

(***************************************************************************)
(* mesh1.rs                                                                *)
(***************************************************************************)
MESH1_LAT_DIFF == FDiv(FLit(40, 0), FLit(60, 0))
MESH1_LON_DIFF == FLit(1, 0)

F1_5 == FLit(3, -1)
F100 == FLit(100, 0)

\* the bounds that validate_mesh1_code computes from the domain constants
lat_min == to_string(F_as_u8(FMul(SOUTHERNMOST, F1_5)))
lat_max == to_string(F_as_u8(FMul(FSub(NORTHERNMOST, MESH1_LAT_DIFF), F1_5)))
lon_min == to_string(F_as_u8(WESTERNMOST) % 100)
lon_max == to_string(F_as_u8(FSub(EASTERNMOST, MESH1_LON_DIFF)) % 100)

\* TRUE when validate_mesh1_code returns Ok(()), FALSE for InvalidMeshCode
validate_mesh1_code(code) ==
  IF Len(code) # 4 THEN FALSE
  ELSE IF StrLt(SubSeq(code, 1, 2), consts.lat_min)
          \/ StrLt(consts.lat_max, SubSeq(code, 1, 2)) THEN FALSE
  ELSE IF StrLt(SubSeq(code, 3, 4), consts.lon_min)
          \/ StrLt(consts.lon_max, SubSeq(code, 3, 4)) THEN FALSE
  ELSE TRUE

\* validate_mesh1_code panics: code[0..2] or code[2..4] splits a character
validate_mesh1_code_panics(code) == Len(code) = 4 /\ ~is_char_boundary(code, 2)

Mesh1_new(code) ==
  IF validate_mesh1_code_panics(code) THEN PanicC
  ELSE IF validate_mesh1_code(code) THEN OkC(code) ELSE ErrC("InvalidMeshCode")

\* Mesh1::from_coordinate that writes the longitude field first
Mesh1_from_coordinate_swapped(coord) ==
  IF ~contains_coordinate(coord) THEN ErrC("OutOfRange")
  ELSE OkC(format02(F_as_u8(FSub(coord.lon, consts.F100)))
             \o format02(F_as_u8(FMul(coord.lat, consts.F1_5))))

Mesh1_from_coordinate(coord) ==
  IF ~contains_coordinate(coord) THEN ErrC("OutOfRange")
  ELSE OkC(format02(F_as_u8(FMul(coord.lat, consts.F1_5)))
             \o format02(F_as_u8(FSub(coord.lon, consts.F100))))

Mesh1_south(code) ==
  UnwrapF(parse_f64(SubSeq(code, 1, 2)), LAMBDA x : OkF(FDiv(x, consts.F1_5)))

Mesh1_west(code) ==
  UnwrapF(parse_f64(SubSeq(code, 3, 4)), LAMBDA x : OkF(FAdd(x, consts.F100)))

Mesh1_north(code) ==
  UnwrapF(Mesh1_south(code), LAMBDA s : OkF(FAdd(s, consts.MESH1_LAT_DIFF)))

Mesh1_east(code) ==
  UnwrapF(Mesh1_west(code), LAMBDA w : OkF(FAdd(w, consts.MESH1_LON_DIFF)))

\* u8 arithmetic: an overflow of + 1 or - 1 panics
Mesh1_north_mesh(code) ==
  LET p == parse_u8(SubSeq(code, 1, 2))
  IN  IF p = -1 \/ p + 1 > 255 THEN PanicC
      ELSE Mesh1_new(format02(p + 1) \o SubSeq(code, 3, 4))

Mesh1_east_mesh(code) ==
  LET p == parse_u8(SubSeq(code, 3, 4))
  IN  IF p = -1 \/ p + 1 > 255 THEN PanicC
      ELSE Mesh1_new(SubSeq(code, 1, 2) \o format02(p + 1))

Mesh1_south_mesh(code) ==
  LET p == parse_u8(SubSeq(code, 1, 2))
  IN  IF p = -1 \/ p - 1 < 0 THEN PanicC
      ELSE Mesh1_new(format02(p - 1) \o SubSeq(code, 3, 4))

Mesh1_west_mesh(code) ==
  LET p == parse_u8(SubSeq(code, 3, 4))
  IN  IF p = -1 \/ p - 1 < 0 THEN PanicC
      ELSE Mesh1_new(SubSeq(code, 1, 2) \o format02(p - 1))

\* str.chars().nth(i) for a 0-based i: -1 stands for None
Nth(code, i) == IF i + 1 <= Len(code) THEN code[i + 1] ELSE -1

(***************************************************************************)
(* mesh2.rs                                                                *)
(***************************************************************************)
MESH2_LAT_DIFF == FDiv(FLit(5, 0), FLit(60, 0))
MESH2_LON_DIFF == FAdd(FDiv(FLit(7, 0), FLit(60, 0)),
                       FDiv(FLit(30, 0), FLit(3600, 0)))

\* TRUE when validate_mesh2_code returns Ok(()), FALSE for InvalidMeshCode
validate_mesh2_code(code) ==
  IF Len(code) # 6 THEN FALSE
  ELSE IF ~validate_mesh1_code(SubSeq(code, 1, 4)) THEN FALSE
  ELSE IF ~(Nth(code, 4) \in Ch0 .. (Ch0 + 7)) THEN FALSE
  ELSE IF ~(Nth(code, 5) \in Ch0 .. (Ch0 + 7)) THEN FALSE
  ELSE TRUE

\* validate_mesh2_code panics: code[0..4] splits a character, or the
\* validation of that prefix panics
validate_mesh2_code_panics(code) ==
  /\ Len(code) = 6
  /\ \/ ~is_char_boundary(code, 4)
     \/ validate_mesh1_code_panics(SubSeq(code, 1, 4))

Mesh2_new(code) ==
  IF validate_mesh2_code_panics(code) THEN PanicC
  ELSE IF validate_mesh2_code(code) THEN OkC(code) ELSE ErrC("InvalidMeshCode")

\* Mesh2::mesh1: Mesh1::new(self.code[0..4]).unwrap()
Mesh2_mesh1(code) ==
  IF Len(code) < 4 THEN PanicC
  ELSE IF Mesh1_new(SubSeq(code, 1, 4)).kind = "Ok"
  THEN OkC(SubSeq(code, 1, 4))
  ELSE PanicC

Mesh2_south(code) ==
  UnwrapCF(Mesh2_mesh1(code), LAMBDA mesh1 :
    UnwrapF(Mesh1_south(mesh1), LAMBDA s :
      IF to_digit(Nth(code, 4)) = -1 THEN PanicF
      ELSE OkF(FAdd(s, FMul(consts.MESH2_LAT_DIFF,
                            FLit(to_digit(Nth(code, 4)), 0))))))

Mesh2_west(code) ==
  UnwrapCF(Mesh2_mesh1(code), LAMBDA mesh1 :
    UnwrapF(Mesh1_west(mesh1), LAMBDA w :
      IF to_digit(Nth(code, 5)) = -1 THEN PanicF
      ELSE OkF(FAdd(w, FMul(consts.MESH2_LON_DIFF,
                            FLit(to_digit(Nth(code, 5)), 0))))))

Mesh2_north(code) ==
  UnwrapF(Mesh2_south(code), LAMBDA s : OkF(FAdd(s, consts.MESH2_LAT_DIFF)))

Mesh2_east(code) ==
  UnwrapF(Mesh2_west(code), LAMBDA w : OkF(FAdd(w, consts.MESH2_LON_DIFF)))

Mesh2_from_coordinate(coord) ==
  TryC(Mesh1_from_coordinate(coord), LAMBDA mesh1 :
    UnwrapFC(Mesh1_south(mesh1), LAMBDA s :
      UnwrapFC(Mesh1_west(mesh1), LAMBDA w :
        Mesh2_new(mesh1
          \o to_string(F_as_u8(FDiv(FSub(coord.lat, s), consts.MESH2_LAT_DIFF)))
          \o to_string(F_as_u8(FDiv(FSub(coord.lon, w), consts.MESH2_LON_DIFF)))))))

\* Mesh2::north_mesh without the carry: the row is incremented past 7
Mesh2_north_mesh_nocarry(code) ==
  LET lat_idx == to_digit(Nth(code, 4))
  IN  IF lat_idx = -1 THEN PanicC
      ELSE IF Len(code) < 4 \/ Nth(code, 5) = -1 THEN PanicC
      ELSE Mesh2_new(SubSeq(code, 1, 4) \o to_string(lat_idx + 1)
                       \o <<Nth(code, 5)>>)

Mesh2_north_mesh(code) ==
  LET lat_idx == to_digit(Nth(code, 4))
  IN  IF lat_idx = -1 THEN PanicC
      ELSE IF lat_idx = 7
      THEN UnwrapC(Mesh2_mesh1(code), LAMBDA p :
             TryC(Mesh1_north_mesh(p), LAMBDA mesh1 :
               IF Nth(code, 5) = -1 THEN PanicC
               ELSE Mesh2_new(mesh1 \o <<Ch0>> \o <<Nth(code, 5)>>)))
      ELSE IF Len(code) < 4 \/ Nth(code, 5) = -1 THEN PanicC
      ELSE Mesh2_new(SubSeq(code, 1, 4) \o to_string(lat_idx + 1)
                       \o <<Nth(code, 5)>>)

\* Mesh2::east_mesh whose carry resets the row as well as the column
Mesh2_east_mesh_rowreset(code) ==
  LET lon_idx == to_digit(Nth(code, 5))
  IN  IF lon_idx = -1 THEN PanicC
      ELSE IF lon_idx = 7
      THEN UnwrapC(Mesh2_mesh1(code), LAMBDA p :
             TryC(Mesh1_east_mesh(p), LAMBDA mesh1 :
               IF Nth(code, 4) = -1 THEN PanicC
               ELSE Mesh2_new(mesh1 \o <<Ch0>> \o <<Ch0>>)))
      ELSE IF Len(code) < 5 THEN PanicC
      ELSE Mesh2_new(SubSeq(code, 1, 5) \o to_string(lon_idx + 1))

Mesh2_east_mesh(code) ==
  LET lon_idx == to_digit(Nth(code, 5))
  IN  IF lon_idx = -1 THEN PanicC
      ELSE IF lon_idx = 7
      THEN UnwrapC(Mesh2_mesh1(code), LAMBDA p :
             TryC(Mesh1_east_mesh(p), LAMBDA mesh1 :
               IF Nth(code, 4) = -1 THEN PanicC
               ELSE Mesh2_new(mesh1 \o <<Nth(code, 4)>> \o <<Ch0>>)))
      ELSE IF Len(code) < 5 THEN PanicC
      ELSE Mesh2_new(SubSeq(code, 1, 5) \o to_string(lon_idx + 1))

Mesh2_south_mesh(code) ==
  LET lat_idx == to_digit(Nth(code, 4))
  IN  IF lat_idx = -1 THEN PanicC
      ELSE IF lat_idx = 0
      THEN UnwrapC(Mesh2_mesh1(code), LAMBDA p :
             TryC(Mesh1_south_mesh(p), LAMBDA mesh1 :
               IF Nth(code, 5) = -1 THEN PanicC
               ELSE Mesh2_new(mesh1 \o <<Ch0 + 7>> \o <<Nth(code, 5)>>)))
      ELSE IF Len(code) < 4 \/ Nth(code, 5) = -1 THEN PanicC
      ELSE Mesh2_new(SubSeq(code, 1, 4) \o to_string(lat_idx - 1)
                       \o <<Nth(code, 5)>>)

Mesh2_west_mesh(code) ==
  LET lon_idx == to_digit(Nth(code, 5))
  IN  IF lon_idx = -1 THEN PanicC
      ELSE IF lon_idx = 0
      THEN UnwrapC(Mesh2_mesh1(code), LAMBDA p :
             TryC(Mesh1_west_mesh(p), LAMBDA mesh1 :
               IF Nth(code, 4) = -1 THEN PanicC
               ELSE Mesh2_new(mesh1 \o <<Nth(code, 4)>> \o <<Ch0 + 7>>)))
      ELSE IF Len(code) < 5 THEN PanicC
      ELSE Mesh2_new(SubSeq(code, 1, 5) \o to_string(lon_idx - 1))

(***************************************************************************)
(* mesh3.rs                                                                *)
(***************************************************************************)
MESH3_LAT_DIFF == FDiv(FLit(30, 0), FLit(3600, 0))
MESH3_LON_DIFF == FDiv(FLit(45, 0), FLit(3600, 0))

\* TRUE when validate_mesh3_code returns Ok(()), FALSE for InvalidMeshCode
validate_mesh3_code(code) ==
  IF Len(code) # 8 THEN FALSE
  ELSE IF ~validate_mesh2_code(SubSeq(code, 1, 6)) THEN FALSE
  ELSE IF ~(Nth(code, 6) \in Ch0 .. (Ch0 + 9)) THEN FALSE
  ELSE IF ~(Nth(code, 7) \in Ch0 .. (Ch0 + 9)) THEN FALSE
  ELSE TRUE

\* validate_mesh3_code panics: code[0..6] splits a character, or the
\* validation of that prefix panics
validate_mesh3_code_panics(code) ==
  /\ Len(code) = 8
  /\ \/ ~is_char_boundary(code, 6)
     \/ validate_mesh2_code_panics(SubSeq(code, 1, 6))

Mesh3_new(code) ==
  IF validate_mesh3_code_panics(code) THEN PanicC
  ELSE IF validate_mesh3_code(code) THEN OkC(code) ELSE ErrC("InvalidMeshCode")

\* Mesh3::mesh2: Mesh2::new(self.code[0..6]).unwrap()
Mesh3_mesh2(code) ==
  IF Len(code) < 6 THEN PanicC
  ELSE IF Mesh2_new(SubSeq(code, 1, 6)).kind = "Ok"
  THEN OkC(SubSeq(code, 1, 6))
  ELSE PanicC

Mesh3_south(code) ==
  UnwrapCF(Mesh3_mesh2(code), LAMBDA mesh2 :
    UnwrapF(Mesh2_south(mesh2), LAMBDA s :
      IF to_digit(Nth(code, 6)) = -1 THEN PanicF
      ELSE OkF(FAdd(s, FMul(consts.MESH3_LAT_DIFF,
                            FLit(to_digit(Nth(code, 6)), 0))))))

Mesh3_west(code) ==
  UnwrapCF(Mesh3_mesh2(code), LAMBDA mesh2 :
    UnwrapF(Mesh2_west(mesh2), LAMBDA w :
      IF to_digit(Nth(code, 7)) = -1 THEN PanicF
      ELSE OkF(FAdd(w, FMul(consts.MESH3_LON_DIFF,
                            FLit(to_digit(Nth(code, 7)), 0))))))

Mesh3_north(code) ==
  UnwrapF(Mesh3_south(code), LAMBDA s : OkF(FAdd(s, consts.MESH3_LAT_DIFF)))

Mesh3_east(code) ==
  UnwrapF(Mesh3_west(code), LAMBDA w : OkF(FAdd(w, consts.MESH3_LON_DIFF)))

Mesh3_from_coordinate(coord) ==
  TryC(Mesh2_from_coordinate(coord), LAMBDA mesh2 :
    UnwrapFC(Mesh2_south(mesh2), LAMBDA s :
      UnwrapFC(Mesh2_west(mesh2), LAMBDA w :
        Mesh3_new(mesh2
          \o to_string(F_as_u8(FDiv(FSub(coord.lat, s), consts.MESH3_LAT_DIFF)))
          \o to_string(F_as_u8(FDiv(FSub(coord.lon, w), consts.MESH3_LON_DIFF)))))))

Mesh3_north_mesh(code) ==
  LET lat_idx == to_digit(Nth(code, 6))
  IN  IF lat_idx = -1 THEN PanicC
      ELSE IF lat_idx = 9
      THEN UnwrapC(Mesh3_mesh2(code), LAMBDA p :
             TryC(Mesh2_north_mesh(p), LAMBDA mesh2 :
               IF Nth(code, 7) = -1 THEN PanicC
               ELSE Mesh3_new(mesh2 \o <<Ch0>> \o <<Nth(code, 7)>>)))
      ELSE IF Len(code) < 6 \/ Nth(code, 7) = -1 THEN PanicC
      ELSE Mesh3_new(SubSeq(code, 1, 6) \o to_string(lat_idx + 1)
                       \o <<Nth(code, 7)>>)

Mesh3_east_mesh(code) ==
  LET lon_idx == to_digit(Nth(code, 7))
  IN  IF lon_idx = -1 THEN PanicC
      ELSE IF lon_idx = 9
      THEN UnwrapC(Mesh3_mesh2(code), LAMBDA p :
             TryC(Mesh2_east_mesh(p), LAMBDA mesh2 :
               IF Nth(code, 6) = -1 THEN PanicC
               ELSE Mesh3_new(mesh2 \o <<Nth(code, 6)>> \o <<Ch0>>)))
      ELSE IF Len(code) < 7 THEN PanicC
      ELSE Mesh3_new(SubSeq(code, 1, 7) \o to_string(lon_idx + 1))

\* Mesh3::south_mesh with the wrap digit of Level 2 (7) in place of 9
Mesh3_south_mesh_wrap7(code) ==
  LET lat_idx == to_digit(Nth(code, 6))
  IN  IF lat_idx = -1 THEN PanicC
      ELSE IF lat_idx = 0
      THEN UnwrapC(Mesh3_mesh2(code), LAMBDA p :
             TryC(Mesh2_south_mesh(p), LAMBDA mesh2 :
               IF Nth(code, 7) = -1 THEN PanicC
               ELSE Mesh3_new(mesh2 \o <<Ch0 + 7>> \o <<Nth(code, 7)>>)))
      ELSE IF Len(code) < 6 \/ Nth(code, 7) = -1 THEN PanicC
      ELSE Mesh3_new(SubSeq(code, 1, 6) \o to_string(lat_idx - 1)
                       \o <<Nth(code, 7)>>)

Mesh3_south_mesh(code) ==
  LET lat_idx == to_digit(Nth(code, 6))
  IN  IF lat_idx = -1 THEN PanicC
      ELSE IF lat_idx = 0
      THEN UnwrapC(Mesh3_mesh2(code), LAMBDA p :
             TryC(Mesh2_south_mesh(p), LAMBDA mesh2 :
               IF Nth(code, 7) = -1 THEN PanicC
               ELSE Mesh3_new(mesh2 \o <<Ch0 + 9>> \o <<Nth(code, 7)>>)))
      ELSE IF Len(code) < 6 \/ Nth(code, 7) = -1 THEN PanicC
      ELSE Mesh3_new(SubSeq(code, 1, 6) \o to_string(lat_idx - 1)
                       \o <<Nth(code, 7)>>)

Mesh3_west_mesh(code) ==
  LET lon_idx == to_digit(Nth(code, 7))
  IN  IF lon_idx = -1 THEN PanicC
      ELSE IF lon_idx = 0
      THEN UnwrapC(Mesh3_mesh2(code), LAMBDA p :
             TryC(Mesh2_west_mesh(p), LAMBDA mesh2 :
               IF Nth(code, 6) = -1 THEN PanicC
               ELSE Mesh3_new(mesh2 \o <<Nth(code, 6)>> \o <<Ch0 + 9>>)))
      ELSE IF Len(code) < 7 THEN PanicC
      ELSE Mesh3_new(SubSeq(code, 1, 7) \o to_string(lon_idx - 1))

(***************************************************************************)
(* mesh4.rs                                                                *)
(***************************************************************************)
MESH4_LAT_DIFF == FDiv(FLit(15, 0), FLit(3600, 0))
MESH4_LON_DIFF == FDiv(FLit(45, -1), FLit(3600, 0))

\* TRUE when validate_mesh4_code returns Ok(()), FALSE for InvalidMeshCode
validate_mesh4_code(code) ==
  IF Len(code) # 9 THEN FALSE
  ELSE IF ~validate_mesh3_code(SubSeq(code, 1, 8)) THEN FALSE
  ELSE IF ~(Nth(code, 8) \in (Ch0 + 1) .. (Ch0 + 4)) THEN FALSE
  ELSE TRUE

\* validate_mesh4_code panics: code[0..8] splits a character, or the
\* validation of that prefix panics
validate_mesh4_code_panics(code) ==
  /\ Len(code) = 9
  /\ \/ ~is_char_boundary(code, 8)
     \/ validate_mesh3_code_panics(SubSeq(code, 1, 8))

\* Mesh4::new that stores the code with its quadrant normalised to 1
Mesh4_new_normalised(code) ==
  IF validate_mesh4_code_panics(code) THEN PanicC
  ELSE IF validate_mesh4_code(code) THEN OkC(SubSeq(code, 1, 8) \o <<Ch0 + 1>>)
  ELSE ErrC("InvalidMeshCode")

Mesh4_new(code) ==
  IF validate_mesh4_code_panics(code) THEN PanicC
  ELSE IF validate_mesh4_code(code) THEN OkC(code) ELSE ErrC("InvalidMeshCode")

\* Mesh4::mesh3: Mesh3::new(self.code[0..8]).unwrap()
Mesh4_mesh3(code) ==
  IF Len(code) < 8 THEN PanicC
  ELSE IF Mesh3_new(SubSeq(code, 1, 8)).kind = "Ok"
  THEN OkC(SubSeq(code, 1, 8))
  ELSE PanicC

\* the match on the quadrant character: any other character is unreachable!()
Mesh4_south(code) ==
  UnwrapCF(Mesh4_mesh3(code), LAMBDA mesh3 :
    UnwrapF(Mesh3_south(mesh3), LAMBDA south :
      IF Nth(code, 8) \in {Ch0 + 1, Ch0 + 2} THEN OkF(south)
      ELSE IF Nth(code, 8) \in {Ch0 + 3, Ch0 + 4}
      THEN OkF(FAdd(south, consts.MESH4_LAT_DIFF))
      ELSE PanicF))

Mesh4_west(code) ==
  UnwrapCF(Mesh4_mesh3(code), LAMBDA mesh3 :
    UnwrapF(Mesh3_west(mesh3), LAMBDA west :
      IF Nth(code, 8) \in {Ch0 + 1, Ch0 + 3} THEN OkF(west)
      ELSE IF Nth(code, 8) \in {Ch0 + 2, Ch0 + 4}
      THEN OkF(FAdd(west, consts.MESH4_LON_DIFF))
      ELSE PanicF))

Mesh4_north(code) ==
  UnwrapF(Mesh4_south(code), LAMBDA s : OkF(FAdd(s, consts.MESH4_LAT_DIFF)))

Mesh4_east(code) ==
  UnwrapF(Mesh4_west(code), LAMBDA w : OkF(FAdd(w, consts.MESH4_LON_DIFF)))

\* the quadrant digit of the row lat_n and the column lon_n; num is a u8,
\* so 2 * lat_n + 1 + lon_n panics when it overflows
Mesh4_quadrant(mesh3, lat_n, lon_n) ==
  IF 2 * lat_n + 1 + lon_n > 255 THEN PanicC
  ELSE Mesh4_new(mesh3 \o to_string(2 * lat_n + 1 + lon_n))

Mesh4_from_coordinate(coord) ==
  TryC(Mesh3_from_coordinate(coord), LAMBDA mesh3 :
    UnwrapFC(Mesh3_south(mesh3), LAMBDA s :
      UnwrapFC(Mesh3_west(mesh3), LAMBDA w :
        Mesh4_quadrant(mesh3,
          F_as_u8(FFloor(FDiv(FSub(coord.lat, s), consts.MESH4_LAT_DIFF))),
          F_as_u8(FFloor(FDiv(FSub(coord.lon, w), consts.MESH4_LON_DIFF)))))))

\* Mesh4::north_mesh that keeps the quadrant digit when it moves to the
\* parent's north neighbour
Mesh4_north_mesh_keepq(code) ==
  LET n == to_digit(Nth(code, 8))
  IN  IF n = -1 THEN PanicC
      ELSE IF n \in {1, 2}
      THEN IF Len(code) < 8 THEN PanicC
           ELSE Mesh4_new(SubSeq(code, 1, 8) \o to_string(n + 2))
      ELSE IF n \in {3, 4}
      THEN UnwrapC(Mesh4_mesh3(code), LAMBDA p :
             TryC(Mesh3_north_mesh(p), LAMBDA mesh3 :
               Mesh4_new(mesh3 \o to_string(n))))
      ELSE PanicC

Mesh4_north_mesh(code) ==
  LET n == to_digit(Nth(code, 8))
  IN  IF n = -1 THEN PanicC
      ELSE IF n \in {1, 2}
      THEN IF Len(code) < 8 THEN PanicC
           ELSE Mesh4_new(SubSeq(code, 1, 8) \o to_string(n + 2))
      ELSE IF n \in {3, 4}
      THEN UnwrapC(Mesh4_mesh3(code), LAMBDA p :
             TryC(Mesh3_north_mesh(p), LAMBDA mesh3 :
               Mesh4_new(mesh3 \o to_string(n - 2))))
      ELSE PanicC

Mesh4_east_mesh(code) ==
  LET n == to_digit(Nth(code, 8))
  IN  IF n = -1 THEN PanicC
      ELSE IF n \in {1, 3}
      THEN IF Len(code) < 8 THEN PanicC
           ELSE Mesh4_new(SubSeq(code, 1, 8) \o to_string(n + 1))
      ELSE IF n \in {2, 4}
      THEN UnwrapC(Mesh4_mesh3(code), LAMBDA p :
             TryC(Mesh3_east_mesh(p), LAMBDA mesh3 :
               Mesh4_new(mesh3 \o to_string(n - 1))))
      ELSE PanicC

Mesh4_south_mesh(code) ==
  LET n == to_digit(Nth(code, 8))
  IN  IF n = -1 THEN PanicC
      ELSE IF n \in {1, 2}
      THEN UnwrapC(Mesh4_mesh3(code), LAMBDA p :
             TryC(Mesh3_south_mesh(p), LAMBDA mesh3 :
               Mesh4_new(mesh3 \o to_string(n + 2))))
      ELSE IF n \in {3, 4}
      THEN IF Len(code) < 8 THEN PanicC
           ELSE Mesh4_new(SubSeq(code, 1, 8) \o to_string(n - 2))
      ELSE PanicC

Mesh4_west_mesh(code) ==
  LET n == to_digit(Nth(code, 8))
  IN  IF n = -1 THEN PanicC
      ELSE IF n \in {1, 3}
      THEN UnwrapC(Mesh4_mesh3(code), LAMBDA p :
             TryC(Mesh3_west_mesh(p), LAMBDA mesh3 :
               Mesh4_new(mesh3 \o to_string(n + 1))))
      ELSE IF n \in {2, 4}
      THEN IF Len(code) < 8 THEN PanicC
           ELSE Mesh4_new(SubSeq(code, 1, 8) \o to_string(n - 1))
      ELSE PanicC

(***************************************************************************)
(* mesh5.rs                                                                *)
(***************************************************************************)
MESH5_LAT_DIFF == FDiv(FLit(15, -1), FLit(3600, 0))
MESH5_LON_DIFF == FDiv(FLit(45, -2), FLit(3600, 0))

\* TRUE when validate_mesh5_code returns Ok(()), FALSE for InvalidMeshCode
validate_mesh5_code(code) ==
  IF Len(code) # 10 THEN FALSE
  ELSE IF ~validate_mesh4_code(SubSeq(code, 1, 9)) THEN FALSE
  ELSE IF ~(Nth(code, 9) \in (Ch0 + 1) .. (Ch0 + 4)) THEN FALSE
  ELSE TRUE

\* validate_mesh5_code panics: code[0..9] splits a character, or the
\* validation of that prefix panics
validate_mesh5_code_panics(code) ==
  /\ Len(code) = 10
  /\ \/ ~is_char_boundary(code, 9)
     \/ validate_mesh4_code_panics(SubSeq(code, 1, 9))

Mesh5_new(code) ==
  IF validate_mesh5_code_panics(code) THEN PanicC
  ELSE IF validate_mesh5_code(code) THEN OkC(code) ELSE ErrC("InvalidMeshCode")

\* Mesh5::mesh4: Mesh4::new(self.code[0..9]).unwrap()
Mesh5_mesh4(code) ==
  IF Len(code) < 9 THEN PanicC
  ELSE IF Mesh4_new(SubSeq(code, 1, 9)).kind = "Ok"
  THEN OkC(SubSeq(code, 1, 9))
  ELSE PanicC

\* the match on the quadrant character: any other character is unreachable!()
Mesh5_south(code) ==
  UnwrapCF(Mesh5_mesh4(code), LAMBDA mesh4 :
    UnwrapF(Mesh4_south(mesh4), LAMBDA south :
      IF Nth(code, 9) \in {Ch0 + 1, Ch0 + 2} THEN OkF(south)
      ELSE IF Nth(code, 9) \in {Ch0 + 3, Ch0 + 4}
      THEN OkF(FAdd(south, consts.MESH5_LAT_DIFF))
      ELSE PanicF))

Mesh5_west(code) ==
  UnwrapCF(Mesh5_mesh4(code), LAMBDA mesh4 :
    UnwrapF(Mesh4_west(mesh4), LAMBDA west :
      IF Nth(code, 9) \in {Ch0 + 1, Ch0 + 3} THEN OkF(west)
      ELSE IF Nth(code, 9) \in {Ch0 + 2, Ch0 + 4}
      THEN OkF(FAdd(west, consts.MESH5_LON_DIFF))
      ELSE PanicF))

Mesh5_north(code) ==
  UnwrapF(Mesh5_south(code), LAMBDA s : OkF(FAdd(s, consts.MESH5_LAT_DIFF)))

Mesh5_east(code) ==
  UnwrapF(Mesh5_west(code), LAMBDA w : OkF(FAdd(w, consts.MESH5_LON_DIFF)))

\* the quadrant digit of the row lat_n and the column lon_n; num is a u8,
\* so 2 * lat_n + 1 + lon_n panics when it overflows
Mesh5_quadrant(mesh4, lat_n, lon_n) ==
  IF 2 * lat_n + 1 + lon_n > 255 THEN PanicC
  ELSE Mesh5_new(mesh4 \o to_string(2 * lat_n + 1 + lon_n))

Mesh5_from_coordinate(coord) ==
  TryC(Mesh4_from_coordinate(coord), LAMBDA mesh4 :
    UnwrapFC(Mesh4_south(mesh4), LAMBDA s :
      UnwrapFC(Mesh4_west(mesh4), LAMBDA w :
        Mesh5_quadrant(mesh4,
          F_as_u8(FFloor(FDiv(FSub(coord.lat, s), consts.MESH5_LAT_DIFF))),
          F_as_u8(FFloor(FDiv(FSub(coord.lon, w), consts.MESH5_LON_DIFF)))))))

Mesh5_north_mesh(code) ==
  LET n == to_digit(Nth(code, 9))
  IN  IF n = -1 THEN PanicC
      ELSE IF n \in {1, 2}
      THEN IF Len(code) < 9 THEN PanicC
           ELSE Mesh5_new(SubSeq(code, 1, 9) \o to_string(n + 2))
      ELSE IF n \in {3, 4}
      THEN UnwrapC(Mesh5_mesh4(code), LAMBDA p :
             TryC(Mesh4_north_mesh(p), LAMBDA mesh4 :
               Mesh5_new(mesh4 \o to_string(n - 2))))
      ELSE PanicC

Mesh5_east_mesh(code) ==
  LET n == to_digit(Nth(code, 9))
  IN  IF n = -1 THEN PanicC
      ELSE IF n \in {1, 3}
      THEN IF Len(code) < 9 THEN PanicC
           ELSE Mesh5_new(SubSeq(code, 1, 9) \o to_string(n + 1))
      ELSE IF n \in {2, 4}
      THEN UnwrapC(Mesh5_mesh4(code), LAMBDA p :
             TryC(Mesh4_east_mesh(p), LAMBDA mesh4 :
               Mesh5_new(mesh4 \o to_string(n - 1))))
      ELSE PanicC

Mesh5_south_mesh(code) ==
  LET n == to_digit(Nth(code, 9))
  IN  IF n = -1 THEN PanicC
      ELSE IF n \in {1, 2}
      THEN UnwrapC(Mesh5_mesh4(code), LAMBDA p :
             TryC(Mesh4_south_mesh(p), LAMBDA mesh4 :
               Mesh5_new(mesh4 \o to_string(n + 2))))
      ELSE IF n \in {3, 4}
      THEN IF Len(code) < 9 THEN PanicC
           ELSE Mesh5_new(SubSeq(code, 1, 9) \o to_string(n - 2))
      ELSE PanicC

Mesh5_west_mesh(code) ==
  LET n == to_digit(Nth(code, 9))
  IN  IF n = -1 THEN PanicC
      ELSE IF n \in {1, 3}
      THEN UnwrapC(Mesh5_mesh4(code), LAMBDA p :
             TryC(Mesh4_west_mesh(p), LAMBDA mesh4 :
               Mesh5_new(mesh4 \o to_string(n + 1))))
      ELSE IF n \in {2, 4}
      THEN IF Len(code) < 9 THEN PanicC
           ELSE Mesh5_new(SubSeq(code, 1, 9) \o to_string(n - 1))
      ELSE PanicC

(***************************************************************************)
(* mesh6.rs                                                                *)
(***************************************************************************)
MESH6_LAT_DIFF == FDiv(FLit(15, -2), FLit(3600, 0))
MESH6_LON_DIFF == FDiv(FLit(45, -3), FLit(3600, 0))

\* TRUE when validate_mesh6_code returns Ok(()), FALSE for InvalidMeshCode
validate_mesh6_code(code) ==
  IF Len(code) # 11 THEN FALSE
  ELSE IF ~validate_mesh5_code(SubSeq(code, 1, 10)) THEN FALSE
  ELSE IF ~(Nth(code, 10) \in (Ch0 + 1) .. (Ch0 + 4)) THEN FALSE
  ELSE TRUE

\* validate_mesh6_code panics: code[0..10] splits a character, or the
\* validation of that prefix panics
validate_mesh6_code_panics(code) ==
  /\ Len(code) = 11
  /\ \/ ~is_char_boundary(code, 10)
     \/ validate_mesh5_code_panics(SubSeq(code, 1, 10))

Mesh6_new(code) ==
  IF validate_mesh6_code_panics(code) THEN PanicC
  ELSE IF validate_mesh6_code(code) THEN OkC(code) ELSE ErrC("InvalidMeshCode")

\* Mesh6::mesh5: Mesh5::new(self.code[0..10]).unwrap()
Mesh6_mesh5(code) ==
  IF Len(code) < 10 THEN PanicC
  ELSE IF Mesh5_new(SubSeq(code, 1, 10)).kind = "Ok"
  THEN OkC(SubSeq(code, 1, 10))
  ELSE PanicC

\* the match on the quadrant character: any other character is unreachable!()
Mesh6_south(code) ==
  UnwrapCF(Mesh6_mesh5(code), LAMBDA mesh5 :
    UnwrapF(Mesh5_south(mesh5), LAMBDA south :
      IF Nth(code, 10) \in {Ch0 + 1, Ch0 + 2} THEN OkF(south)
      ELSE IF Nth(code, 10) \in {Ch0 + 3, Ch0 + 4}
      THEN OkF(FAdd(south, consts.MESH6_LAT_DIFF))
      ELSE PanicF))

Mesh6_west(code) ==
  UnwrapCF(Mesh6_mesh5(code), LAMBDA mesh5 :
    UnwrapF(Mesh5_west(mesh5), LAMBDA west :
      IF Nth(code, 10) \in {Ch0 + 1, Ch0 + 3} THEN OkF(west)
      ELSE IF Nth(code, 10) \in {Ch0 + 2, Ch0 + 4}
      THEN OkF(FAdd(west, consts.MESH6_LON_DIFF))
      ELSE PanicF))

Mesh6_north(code) ==
  UnwrapF(Mesh6_south(code), LAMBDA s : OkF(FAdd(s, consts.MESH6_LAT_DIFF)))

Mesh6_east(code) ==
  UnwrapF(Mesh6_west(code), LAMBDA w : OkF(FAdd(w, consts.MESH6_LON_DIFF)))

\* the quadrant digit of the row lat_n and the column lon_n; num is a u8,
\* so 2 * lat_n + 1 + lon_n panics when it overflows
Mesh6_quadrant(mesh5, lat_n, lon_n) ==
  IF 2 * lat_n + 1 + lon_n > 255 THEN PanicC
  ELSE Mesh6_new(mesh5 \o to_string(2 * lat_n + 1 + lon_n))

Mesh6_from_coordinate(coord) ==
  TryC(Mesh5_from_coordinate(coord), LAMBDA mesh5 :
    UnwrapFC(Mesh5_south(mesh5), LAMBDA s :
      UnwrapFC(Mesh5_west(mesh5), LAMBDA w :
        Mesh6_quadrant(mesh5,
          F_as_u8(FFloor(FDiv(FSub(coord.lat, s), consts.MESH6_LAT_DIFF))),
          F_as_u8(FFloor(FDiv(FSub(coord.lon, w), consts.MESH6_LON_DIFF)))))))

Mesh6_north_mesh(code) ==
  LET n == to_digit(Nth(code, 10))
  IN  IF n = -1 THEN PanicC
      ELSE IF n \in {1, 2}
      THEN IF Len(code) < 10 THEN PanicC
           ELSE Mesh6_new(SubSeq(code, 1, 10) \o to_string(n + 2))
      ELSE IF n \in {3, 4}
      THEN UnwrapC(Mesh6_mesh5(code), LAMBDA p :
             TryC(Mesh5_north_mesh(p), LAMBDA mesh5 :
               Mesh6_new(mesh5 \o to_string(n - 2))))
      ELSE PanicC

Mesh6_east_mesh(code) ==
  LET n == to_digit(Nth(code, 10))
  IN  IF n = -1 THEN PanicC
      ELSE IF n \in {1, 3}
      THEN IF Len(code) < 10 THEN PanicC
           ELSE Mesh6_new(SubSeq(code, 1, 10) \o to_string(n + 1))
      ELSE IF n \in {2, 4}
      THEN UnwrapC(Mesh6_mesh5(code), LAMBDA p :
             TryC(Mesh5_east_mesh(p), LAMBDA mesh5 :
               Mesh6_new(mesh5 \o to_string(n - 1))))
      ELSE PanicC

Mesh6_south_mesh(code) ==
  LET n == to_digit(Nth(code, 10))
  IN  IF n = -1 THEN PanicC
      ELSE IF n \in {1, 2}
      THEN UnwrapC(Mesh6_mesh5(code), LAMBDA p :
             TryC(Mesh5_south_mesh(p), LAMBDA mesh5 :
               Mesh6_new(mesh5 \o to_string(n + 2))))
      ELSE IF n \in {3, 4}
      THEN IF Len(code) < 10 THEN PanicC
           ELSE Mesh6_new(SubSeq(code, 1, 10) \o to_string(n - 2))
      ELSE PanicC

Mesh6_west_mesh(code) ==
  LET n == to_digit(Nth(code, 10))
  IN  IF n = -1 THEN PanicC
      ELSE IF n \in {1, 3}
      THEN UnwrapC(Mesh6_mesh5(code), LAMBDA p :
             TryC(Mesh5_west_mesh(p), LAMBDA mesh5 :
               Mesh6_new(mesh5 \o to_string(n + 1))))
      ELSE IF n \in {2, 4}
      THEN IF Len(code) < 10 THEN PanicC
           ELSE Mesh6_new(SubSeq(code, 1, 10) \o to_string(n - 1))
      ELSE PanicC

(***************************************************************************)
(* The Mesh trait (lib.rs): dispatch on the implementing type, and the     *)
(* default methods.                                                        *)
(***************************************************************************)
Levels == 1..6

CodeLen(L) == CASE L = 1 -> 4 [] L = 2 -> 6 [] L = 3 -> 8
                [] L = 4 -> 9 [] L = 5 -> 10 [] L = 6 -> 11

Mesh_new(L, code) ==
  CASE L = 1 -> Mesh1_new(code) [] L = 2 -> Mesh2_new(code)
    [] L = 3 -> Mesh3_new(code) [] L = 4 -> Mesh4_new(code)
    [] L = 5 -> Mesh5_new(code) [] L = 6 -> Mesh6_new(code)

from_coordinate(L, coord) ==
  CASE L = 1 -> Mesh1_from_coordinate(coord) [] L = 2 -> Mesh2_from_coordinate(coord)
    [] L = 3 -> Mesh3_from_coordinate(coord) [] L = 4 -> Mesh4_from_coordinate(coord)
    [] L = 5 -> Mesh5_from_coordinate(coord) [] L = 6 -> Mesh6_from_coordinate(coord)

south(L, code) ==
  CASE L = 1 -> Mesh1_south(code) [] L = 2 -> Mesh2_south(code)
    [] L = 3 -> Mesh3_south(code) [] L = 4 -> Mesh4_south(code)
    [] L = 5 -> Mesh5_south(code) [] L = 6 -> Mesh6_south(code)

west(L, code) ==
  CASE L = 1 -> Mesh1_west(code) [] L = 2 -> Mesh2_west(code)
    [] L = 3 -> Mesh3_west(code) [] L = 4 -> Mesh4_west(code)
    [] L = 5 -> Mesh5_west(code) [] L = 6 -> Mesh6_west(code)

north(L, code) ==
  CASE L = 1 -> Mesh1_north(code) [] L = 2 -> Mesh2_north(code)
    [] L = 3 -> Mesh3_north(code) [] L = 4 -> Mesh4_north(code)
    [] L = 5 -> Mesh5_north(code) [] L = 6 -> Mesh6_north(code)

east(L, code) ==
  CASE L = 1 -> Mesh1_east(code) [] L = 2 -> Mesh2_east(code)
    [] L = 3 -> Mesh3_east(code) [] L = 4 -> Mesh4_east(code)
    [] L = 5 -> Mesh5_east(code) [] L = 6 -> Mesh6_east(code)

north_mesh(L, code) ==
  CASE L = 1 -> Mesh1_north_mesh(code) [] L = 2 -> Mesh2_north_mesh(code)
    [] L = 3 -> Mesh3_north_mesh(code) [] L = 4 -> Mesh4_north_mesh(code)
    [] L = 5 -> Mesh5_north_mesh(code) [] L = 6 -> Mesh6_north_mesh(code)

east_mesh(L, code) ==
  CASE L = 1 -> Mesh1_east_mesh(code) [] L = 2 -> Mesh2_east_mesh(code)
    [] L = 3 -> Mesh3_east_mesh(code) [] L = 4 -> Mesh4_east_mesh(code)
    [] L = 5 -> Mesh5_east_mesh(code) [] L = 6 -> Mesh6_east_mesh(code)

south_mesh(L, code) ==
  CASE L = 1 -> Mesh1_south_mesh(code) [] L = 2 -> Mesh2_south_mesh(code)
    [] L = 3 -> Mesh3_south_mesh(code) [] L = 4 -> Mesh4_south_mesh(code)
    [] L = 5 -> Mesh5_south_mesh(code) [] L = 6 -> Mesh6_south_mesh(code)

west_mesh(L, code) ==
  CASE L = 1 -> Mesh1_west_mesh(code) [] L = 2 -> Mesh2_west_mesh(code)
    [] L = 3 -> Mesh3_west_mesh(code) [] L = 4 -> Mesh4_west_mesh(code)
    [] L = 5 -> Mesh5_west_mesh(code) [] L = 6 -> Mesh6_west_mesh(code)

\* Mesh::code of a mesh value: the code field of the struct
Mesh_code(m) == m.code

Dirs == {"North", "East", "South", "West"}

\* the orthogonal move of a mesh in direction d
move_mesh(L, d, code) ==
  CASE d = "North" -> north_mesh(L, code) [] d = "East" -> east_mesh(L, code)
    [] d = "South" -> south_mesh(L, code) [] d = "West" -> west_mesh(L, code)

\* a failed first step replaced by the mesh itself
OrSelf(r, self) == IF r.kind = "Err" THEN OkC(self) ELSE r

\* Mesh::north_east_mesh that stays in its row when the north move fails
north_east_mesh_clamped(L, self) ==
  TryC(OrSelf(north_mesh(L, self), self), LAMBDA n : east_mesh(L, n))

\* Mesh::north_east_mesh, south_east_mesh, south_west_mesh and
\* north_west_mesh: self.north_mesh()?.east_mesh() and so on
north_east_mesh(L, self) ==
  TryC(north_mesh(L, self), LAMBDA n : east_mesh(L, n))

south_east_mesh(L, self) ==
  TryC(south_mesh(L, self), LAMBDA n : east_mesh(L, n))

south_west_mesh(L, self) ==
  TryC(south_mesh(L, self), LAMBDA n : west_mesh(L, n))

north_west_mesh(L, self) ==
  TryC(north_mesh(L, self), LAMBDA n : west_mesh(L, n))

DiagonalDirs == {"NorthEast", "SouthEast", "SouthWest", "NorthWest"}

\* the `?` operator on a failed move: an Err is returned, a panic unwinds
Propagate(r) == IF r.kind = "Err" THEN ErrD(r.err) ELSE PanicD

\* `r?` in is_neighboring
TryD(r, F(_)) == IF r.kind # "Ok" THEN Propagate(r) ELSE F(r.code)

\* Mesh::is_neighboring with the east move made from the north neighbour
is_neighboring_receiver(L, self, other) ==
  TryD(north_mesh(L, self), LAMBDA n :
    IF n = other THEN OkD("North")
    ELSE TryD(east_mesh(L, n), LAMBDA e :
      IF e = other THEN OkD("East")
      ELSE TryD(south_mesh(L, self), LAMBDA s :
        IF s = other THEN OkD("South")
        ELSE TryD(west_mesh(L, self), LAMBDA w :
          IF w = other THEN OkD("West") ELSE OkD("None")))))

\* Mesh::is_neighboring: the four moves in the order north, east, south,
\* west, each followed by `?` and the comparison with the other code
is_neighboring(L, self, other) ==
  TryD(north_mesh(L, self), LAMBDA n :
    IF n = other THEN OkD("North")
    ELSE TryD(east_mesh(L, self), LAMBDA e :
      IF e = other THEN OkD("East")
      ELSE TryD(south_mesh(L, self), LAMBDA s :
        IF s = other THEN OkD("South")
        ELSE TryD(west_mesh(L, self), LAMBDA w :
          IF w = other THEN OkD("West") ELSE OkD("None")))))

\* a Coordinate value, or the panic of Coordinate::new(..).unwrap()
OkCoord(lat, lon) == [kind |-> "Ok", lat |-> lat, lon |-> lon]
PanicCoord == [kind |-> "Panic", lat |-> FZero, lon |-> FZero]

\* Err(GSJPError::OutOfRange(message)): axis is the axis the message names
ErrCoord(axis) ==
  [kind |-> "Err", lat |-> FZero, lon |-> FZero, err |-> "OutOfRange", axis |-> axis]

\* Coordinate::new with the longitude validated before the latitude
Coordinate_new_result_lonfirst(lat, lon) ==
  IF ~validate_lon(lon) THEN ErrCoord("lon")
  ELSE IF ~validate_lat(lat) THEN ErrCoord("lat")
  ELSE OkCoord(lat, lon)

\* Coordinate::new with its result: validate_lat(lat)? returns the error of
\* the latitude before validate_lon is called
Coordinate_new_result(lat, lon) ==
  IF ~validate_lat(lat) THEN ErrCoord("lat")
  ELSE IF ~validate_lon(lon) THEN ErrCoord("lon")
  ELSE OkCoord(lat, lon)

NewCoordUnwrap(lat, lon) ==
  IF lat.kind # "Ok" \/ lon.kind # "Ok" THEN PanicCoord
  ELSE IF Coordinate_new(lat.val, lon.val) THEN OkCoord(lat.val, lon.val)
  ELSE PanicCoord

\* the mean of two extents, or the panic of one of them
Mid(a, b) ==
  IF a.kind # "Ok" \/ b.kind # "Ok" THEN PanicF
  ELSE OkF(FDiv(FAdd(a.val, b.val), FLit(2, 0)))

\* Mesh::center, Mesh::north_east, Mesh::south_west
center(L, code) ==
  NewCoordUnwrap(Mid(north(L, code), south(L, code)),
                 Mid(east(L, code), west(L, code)))

north_east(L, code) == NewCoordUnwrap(north(L, code), east(L, code))

south_east(L, code) == NewCoordUnwrap(south(L, code), east(L, code))

south_west(L, code) == NewCoordUnwrap(south(L, code), west(L, code))

north_west(L, code) == NewCoordUnwrap(north(L, code), west(L, code))

(***************************************************************************)
(* base_map_frame.rs                                                       *)
(***************************************************************************)
ChA == 65
ChT == 84

FrameLevels == {"Level50000", "Level5000", "Level2500", "Level1000", "Level500"}

OkFrame(level, code) == [kind |-> "Ok", level |-> level, code |-> code, err |-> "none"]
ErrFrame(e) == [kind |-> "Err", level |-> "none", code |-> <<>>, err |-> e]
PanicFrame == [kind |-> "Panic", level |-> "none", code |-> <<>>, err |-> "panic"]

\* the patterns: one character class for each character of the frame code,
\* between the anchors ^ and $
Class09 == Ch0 .. (Ch0 + 9)
Frame50000Classes == <<Ch0 .. (Ch0 + 1), Class09, ChA .. ChT, ChA .. (ChA + 7)>>
Frame5000Classes == Frame50000Classes \o <<Class09, Class09>>

LEVEL_50000_PATTERN == Frame50000Classes
LEVEL_5000_PATTERN == Frame5000Classes
LEVEL_2500_PATTERN == Frame5000Classes \o <<(Ch0 + 1) .. (Ch0 + 4)>>
LEVEL_1000_PATTERN == Frame5000Classes \o <<Ch0 .. (Ch0 + 4), ChA .. (ChA + 4)>>
LEVEL_500_PATTERN == Frame5000Classes \o <<Class09, Class09>>

\* Regex::is_match for a pattern ^c1c2..cn$ of character classes: every
\* class is a set of ASCII characters, so a byte of a longer character
\* matches none
is_match(re, s) == Len(s) = Len(re) /\ \A i \in 1..Len(re) : s[i] \in re[i]

\* try_from with the seventh character of Level 2500 taken from 0..4, the
\* range that level_2500_left_top asserts
try_from_quadrant0(s) ==
  IF is_match(LEVEL_50000_PATTERN, s) THEN OkFrame("Level50000", s)
  ELSE IF is_match(LEVEL_5000_PATTERN, s) THEN OkFrame("Level5000", s)
  ELSE IF is_match(Frame5000Classes \o <<Ch0 .. (Ch0 + 4)>>, s)
    THEN OkFrame("Level2500", s)
  ELSE IF is_match(LEVEL_1000_PATTERN, s) THEN OkFrame("Level1000", s)
  ELSE IF is_match(LEVEL_500_PATTERN, s) THEN OkFrame("Level500", s)
  ELSE ErrFrame("InvalidFrameCode")

\* TryFrom<String> for BaseMapFrame
try_from(s) ==
  IF is_match(LEVEL_50000_PATTERN, s) THEN OkFrame("Level50000", s)
  ELSE IF is_match(LEVEL_5000_PATTERN, s) THEN OkFrame("Level5000", s)
  ELSE IF is_match(LEVEL_2500_PATTERN, s) THEN OkFrame("Level2500", s)
  ELSE IF is_match(LEVEL_1000_PATTERN, s) THEN OkFrame("Level1000", s)
  ELSE IF is_match(LEVEL_500_PATTERN, s) THEN OkFrame("Level500", s)
  ELSE ErrFrame("InvalidFrameCode")

\* the f64 of an integer i, |i| < 2^30
FInt(i) == IF i < 0 THEN FNeg(FLit(-i, 0)) ELSE FLit(i, 0)

\* (lo..hi).contains(&v): lo <= v < hi
InHalfOpen(lo, v, hi) == FLe(FInt(lo), v) /\ FLt(v, FInt(hi))

\* cell is how many cells of the size the f64 v spans, as a u8
Times(v, size) == F_as_u8(FDiv(v, FInt(size)))

\* v - times as f64 * size
Rest(v, times, size) == FSub(v, FMul(FInt(times), FInt(size)))

\* Ok(Self::try_from(code).unwrap())
TryFromUnwrap(code) ==
  IF try_from(code).kind = "Ok" THEN try_from(code) ELSE PanicFrame

\* the end of from_level_xy: code is the Level-5000 code, n the quadrant of
\* Level 2500, and y_times and x_times the row and the column of Level 1000
\* or Level 500; 4 - y_times, 9 - y_times and b'A' + x_times are u8
\* arithmetic
FrameBelow5000(level, code, n, y_times, x_times) ==
  IF level = "Level2500" THEN TryFromUnwrap(code \o to_string(n))
  ELSE IF level = "Level1000"
    THEN IF y_times > 4 \/ ChA + x_times > 255 THEN PanicFrame
         ELSE TryFromUnwrap(code \o to_string(4 - y_times) \o <<ChA + x_times>>)
  ELSE IF y_times > 9 THEN PanicFrame
  ELSE TryFromUnwrap(code \o to_string(9 - y_times) \o to_string(x_times))

\* the quadrant of Level 2500 for the offsets x and y in the Level-5000 frame
Quadrant2500(x, y) ==
  (IF FLt(y, FInt(1500)) THEN 3 ELSE 1) + (IF FLt(x, FInt(2000)) THEN 0 ELSE 1)

\* the cell size of the levels below 5000 that are divided in rows and
\* columns
RowSize(level) == IF level = "Level1000" THEN 600 ELSE 300
ColSize(level) == IF level = "Level1000" THEN 800 ELSE 400

\* code is the Level-5000 code, x and y are the offsets in its frame
FrameIn5000(level, code, x, y) ==
  FrameBelow5000(level, code,
                 IF level = "Level2500" THEN Quadrant2500(x, y) ELSE 0,
                 IF level = "Level2500" THEN 0 ELSE Times(y, RowSize(level)),
                 IF level = "Level2500" THEN 0 ELSE Times(x, ColSize(level)))

\* from the Level-5000 frame on: code is the Level-50000 code, x and y are
\* the offsets in its frame, y_times and x_times the row and the column of
\* the Level-5000 frame; 9 - y_times is u8 arithmetic
Frame5000(level, code, x, y, y_times, x_times) ==
  IF y_times > 9 THEN PanicFrame
  ELSE IF level = "Level5000"
    THEN try_from(code \o to_string(9 - y_times) \o to_string(x_times))
  ELSE FrameIn5000(level,
                   code \o to_string(9 - y_times) \o to_string(x_times),
                   Rest(x, x_times, 4000), Rest(y, y_times, 3000))

\* x and y are the distances from the south-west corner of the system,
\* y_times and x_times the row and the column of the Level-50000 frame;
\* b'T' - y_times and b'A' + x_times are u8 arithmetic
Frame50000(system, level, x, y, y_times, x_times) ==
  IF y_times > ChT \/ ChA + x_times > 255 THEN PanicFrame
  ELSE IF level = "Level50000"
    THEN try_from(format02(system) \o <<ChT - y_times, ChA + x_times>>)
  ELSE Frame5000(level,
                 format02(system) \o <<ChT - y_times, ChA + x_times>>,
                 Rest(x, x_times, 40000), Rest(y, y_times, 30000),
                 Times(Rest(y, y_times, 30000), 3000),
                 Times(Rest(x, x_times, 40000), 4000))

\* x and y are the distances from the south-west corner of the system
FrameOf(system, level, x, y) ==
  Frame50000(system, level, x, y, Times(y, 30000), Times(x, 40000))

\* BaseMapFrame::from_level_xy
from_level_xy(system, level, x, y) ==
  IF ~InHalfOpen(-160000, x, 160000) THEN ErrFrame("XOutOfRange")
  ELSE IF ~InHalfOpen(-300000, y, 300000) THEN ErrFrame("YOutOfRange")
  ELSE FrameOf(system, level, FAdd(x, FInt(160000)), FAdd(y, FInt(300000)))

\* BaseMapFrame::width and BaseMapFrame::height, in metres
Frame_width(level) ==
  CASE level = "Level50000" -> 40000 [] level = "Level5000" -> 4000
    [] level = "Level2500" -> 2000 [] level = "Level1000" -> 800
    [] level = "Level500" -> 400

Frame_height(level) ==
  CASE level = "Level50000" -> 30000 [] level = "Level5000" -> 3000
    [] level = "Level2500" -> 1500 [] level = "Level1000" -> 600
    [] level = "Level500" -> 300

\* the left top corner of a frame: (x, y), or the panic of an assert!
OkXY(x, y) == [kind |-> "Ok", x |-> x, y |-> y]
PanicXY == [kind |-> "Panic", x |-> 0, y |-> 0]

level_50000_left_top(code) ==
  IF Len(code) < 4 \/ ~(code[3] \in ChA .. ChT) \/ ~(code[4] \in ChA .. (ChA + 7))
    THEN PanicXY
  ELSE OkXY(-160000 + (code[4] - ChA) * 40000, 300000 - (code[3] - ChA) * 30000)

level_5000_left_top(code) ==
  IF Len(code) < 6 \/ ~IsDigit(code[5]) \/ ~IsDigit(code[6]) THEN PanicXY
  ELSE IF level_50000_left_top(code).kind # "Ok" THEN PanicXY
  ELSE OkXY(level_50000_left_top(code).x + (code[6] - Ch0) * 4000,
            level_50000_left_top(code).y - (code[5] - Ch0) * 3000)

level_2500_left_top(code) ==
  IF Len(code) < 7 \/ ~(code[7] \in Ch0 .. (Ch0 + 4)) THEN PanicXY
  ELSE IF level_5000_left_top(code).kind # "Ok" THEN PanicXY
  ELSE OkXY(level_5000_left_top(code).x
              + (IF (code[7] - Ch0) % 2 = 0 THEN 2000 ELSE 0),
            level_5000_left_top(code).y
              - (IF code[7] - Ch0 >= 3 THEN 1500 ELSE 0))

level_1000_left_top(code) ==
  IF Len(code) < 8 \/ ~(code[7] \in Ch0 .. (Ch0 + 4))
       \/ ~(code[8] \in ChA .. (ChA + 4)) THEN PanicXY
  ELSE IF level_5000_left_top(code).kind # "Ok" THEN PanicXY
  ELSE OkXY(level_5000_left_top(code).x + (code[8] - ChA) * 800,
            level_5000_left_top(code).y - (code[7] - Ch0) * 600)

level_500_left_top(code) ==
  IF Len(code) < 8 \/ ~IsDigit(code[7]) \/ ~IsDigit(code[8]) THEN PanicXY
  ELSE IF level_5000_left_top(code).kind # "Ok" THEN PanicXY
  ELSE OkXY(level_5000_left_top(code).x + (code[8] - Ch0) * 400,
            level_5000_left_top(code).y - (code[7] - Ch0) * 300)

left_top(frame) ==
  CASE frame.level = "Level50000" -> level_50000_left_top(frame.code)
    [] frame.level = "Level5000" -> level_5000_left_top(frame.code)
    [] frame.level = "Level2500" -> level_2500_left_top(frame.code)
    [] frame.level = "Level1000" -> level_1000_left_top(frame.code)
    [] frame.level = "Level500" -> level_500_left_top(frame.code)

\* FrameExtent::new(left, bottom, right, top), or the panic of left_top
PanicExtent == [kind |-> "Panic", left |-> 0, bottom |-> 0, right |-> 0, top |-> 0]

\* BaseMapFrame::extent
extent(frame) ==
  IF left_top(frame).kind # "Ok" THEN PanicExtent
  ELSE [kind |-> "Ok",
        left |-> left_top(frame).x,
        bottom |-> left_top(frame).y - Frame_height(frame.level),
        right |-> left_top(frame).x + Frame_width(frame.level),
        top |-> left_top(frame).y]

(***************************************************************************)
(* lib.rs: DMS                                                             *)
(***************************************************************************)
\* Err(GSJPError::OutOfRange(..)) of validate_lat and validate_lon
ErrF == [kind |-> "Err", val |-> FZero]

\* self.degree as f64 * sign + self.minute as f64 / 60.0 + self.second / 3600.0
DMS_magnitude(degree, minute, second, sign) ==
  FAdd(FAdd(FMul(FInt(degree), sign), FDiv(FInt(minute), FInt(60))),
       FDiv(second, FInt(3600)))

\* sign: 1.0 or -1.0
DMS_sign(degree) == IF degree >= 0 THEN FInt(1) ELSE FInt(-1)

\* DMS::to_lat that validates the magnitude, without the sign
DMS_to_lat_unsigned(degree, minute, second) ==
  IF validate_lat(DMS_magnitude(degree, minute, second, DMS_sign(degree)))
    THEN OkF(DMS_magnitude(degree, minute, second, DMS_sign(degree)))
  ELSE ErrF

\* DMS::to_lat
DMS_to_lat(degree, minute, second) ==
  IF validate_lat(FMul(DMS_magnitude(degree, minute, second, DMS_sign(degree)),
                       DMS_sign(degree)))
    THEN OkF(FMul(DMS_magnitude(degree, minute, second, DMS_sign(degree)),
                  DMS_sign(degree)))
  ELSE ErrF

\* DMS::to_lon
DMS_to_lon(degree, minute, second) ==
  IF validate_lon(FMul(DMS_magnitude(degree, minute, second, DMS_sign(degree)),
                       DMS_sign(degree)))
    THEN OkF(FMul(DMS_magnitude(degree, minute, second, DMS_sign(degree)),
                  DMS_sign(degree)))
  ELSE ErrF

(***************************************************************************)
(* The inputs of the model.                                                *)
(***************************************************************************)
\* the string of the decimal digits ds
Str(ds) == [i \in 1..Len(ds) |-> Ch0 + ds[i]]

\* how many moves a mesh makes after its construction
MaxMoves == 1
\* how many of the sample cells are constructed, and how many of them
\* supply the coordinates that are binned
NumSamples == 6
NumCoordSamples == 2

\* Level-6 cells; their prefixes are the sample cells of the upper levels:
\* two interior cells, the north-east and the south-west corner of the
\* domain, the north-east corner of a Level-1 cell, the cell of the tests,
\* the south-west corner of a Level-1 cell, and a cell on the north edge
SampleCells ==
  << Str(<<5,1,3,5,4,6,2,1,2,3,1>>),
     Str(<<4,8,2,3,2,3,5,9,1,1,1>>),
     Str(<<6,8,5,3,7,7,9,9,4,4,4>>),
     Str(<<3,0,2,2,0,0,0,0,1,1,1>>),
     Str(<<5,3,3,9,7,7,9,9,4,4,4>>),
     Str(<<5,3,3,9,3,5,9,9,3,4,3>>),
     Str(<<5,3,3,9,0,0,0,0,1,1,1>>),
     Str(<<6,8,3,9,7,0,9,0,3,3,3>>) >>

Samples(n) == {SampleCells[i] : i \in 1..Min(n, Len(SampleCells))}

StartCodes(L) == {SubSeq(f, 1, CodeLen(L)) : f \in Samples(NumSamples)}

\* the characters that replace or extend a character of a sample code:
\* "+", ".", "a" and the digits 0, 1, 7, 9
MutChars == {ChPlus, ChDot, 97, Ch0, Ch0 + 1, Ch0 + 7, Ch0 + 9}

\* the two UTF-8 bytes of the character U+00E9
EAcute == <<195, 169>>

\* c with a character replaced, with its last character removed, with a
\* character appended, and with two of its bytes replaced by the two bytes
\* of one character
Mutations(c) ==
  {[c EXCEPT ![i] = ch] : i \in 1..Len(c), ch \in MutChars}
    \cup {SubSeq(c, 1, Len(c) - 1)}
    \cup {Append(c, ch) : ch \in MutChars}
    \cup {SubSeq(c, 1, i - 1) \o EAcute \o SubSeq(c, i + 2, Len(c)) :
            i \in 1..(Len(c) - 1)}

\* the Level-1 codes of the tests mesh1_new_ok and mesh1_new_err: the four
\* corner codes of the documented domain and the codes one cell outside
Mesh1TestCodes ==
  {Str(c) : c \in {<<7,1,4,9>>, <<3,0,4,9>>, <<3,0,1,8>>, <<7,1,1,8>>,
                   <<7,2,4,9>>, <<7,1,5,0>>, <<2,9,4,9>>, <<3,0,5,0>>,
                   <<2,9,1,8>>, <<3,0,1,7>>, <<7,2,1,8>>, <<7,2,1,7>>}}

NewInputs(L) ==
  StartCodes(L) \cup UNION {Mutations(c) : c \in StartCodes(L)}
    \cup (IF L = 1 THEN Mesh1TestCodes ELSE {})

\* the codes is_neighboring is asked about: the cell itself and the cells
\* one and two moves away (the diagonal cells among them)
OkCodes(rs) == {r.code : r \in {x \in rs : x.kind = "Ok"}}

Around(L, cs) == UNION {OkCodes({move_mesh(L, d, c) : d \in Dirs}) : c \in cs}

NeighborArgs(L, code) ==
  {code} \cup Around(L, {code}) \cup Around(L, Around(L, {code}))

\* the coordinates that are binned: the south-west corner, the centre and
\* the north-east corner of the sample cells, those that Coordinate::new
\* accepts
CoordOf(r) == [lat |-> r.lat, lon |-> r.lon]

CoordCells ==
  {<<L, SubSeq(f, 1, CodeLen(L))>> : L \in Levels, f \in Samples(NumCoordSamples)}

Corners(L, code) ==
  {south_west(L, code), center(L, code), north_east(L, code)}

\* Coordinate::default() (the derived Default: latitude 0, longitude 0),
\* and the north-east corner of the domain, which Coordinate::new accepts
CoordinateDefault == [lat |-> FZero, lon |-> FZero]

DomainNorthEast == [lat |-> consts.NORTHERNMOST, lon |-> consts.EASTERNMOST]

CoordInputs ==
  {CoordOf(r) : r \in {x \in UNION {Corners(lc[1], lc[2]) : lc \in CoordCells} :
                        x.kind = "Ok"}}
    \cup {CoordinateDefault, DomainNorthEast}

\* latitudes and longitudes given to Coordinate::new: the limits of the
\* domain, their neighbours among the f64 values, and values well inside and
\* well outside
LatInputs ==
  {consts.SOUTHERNMOST, consts.NORTHERNMOST,
   FSub(consts.SOUTHERNMOST, FLit(1, -48)), FAdd(consts.SOUTHERNMOST, FLit(1, -48)),
   FSub(consts.NORTHERNMOST, FLit(1, -47)), FAdd(consts.NORTHERNMOST, FLit(1, -47)),
   FZero, FLit(33, 0), FLit(47, 0), FLit(19, 0), FNeg(FLit(33, 0)), FLit(138, 0)}

LonInputs ==
  {consts.WESTERNMOST, consts.EASTERNMOST,
   FSub(consts.WESTERNMOST, FLit(1, -46)), FAdd(consts.WESTERNMOST, FLit(1, -46)),
   FSub(consts.EASTERNMOST, FLit(1, -45)), FAdd(consts.EASTERNMOST, FLit(1, -45)),
   FZero, FLit(138, 0), FLit(155, 0), FLit(121, 0), FNeg(FLit(138, 0)), FLit(33, 0)}

\* the frame codes of the tests of base_map_frame.rs, one or two for each
\* level, and codes next to them that no pattern matches
FrameCodes ==
  { <<48, 55, ChA, ChA + 1>>,                          \* 07AB
    <<49, 57, ChT, ChA + 7>>,                          \* 19TH
    <<48, 55, 78, 67, 48, 48>>,                        \* 07NC00
    <<48, 55, 78, 67, 57, 57>>,                        \* 07NC99
    <<48, 55, 78, 67, 48, 48, 49>>,                    \* 07NC001
    <<48, 55, 78, 67, 48, 48, 52>>,                    \* 07NC004
    <<48, 55, 78, 67, 48, 48, 50, 67>>,                \* 07NC002C
    <<48, 55, 78, 67, 48, 48, 52, 69>>,                \* 07NC004E
    <<48, 55, 78, 67, 48, 48, 57, 57>>,                \* 07NC0099
    <<48, 55, 78, 67, 48, 48, 52, 52>> }               \* 07NC0044

\* the characters that replace a character of a frame code: the first and
\* the last character of each class and the characters next to them
FrameChars ==
  {47, 48, 49, 50, 52, 53, 57, 58, 64, ChA, ChA + 4, ChA + 5, ChA + 7, ChA + 8,
   ChT, ChT + 1, 97, 10}

\* c with a character replaced, removed at the end, or appended, and with
\* two bytes replaced by one two-byte character
FrameMutations(c) ==
  {[c EXCEPT ![i] = ch] : i \in 1..Len(c), ch \in FrameChars}
    \cup {SubSeq(c, 1, Len(c) - 1)}
    \cup {Append(c, ch) : ch \in FrameChars}
    \cup {SubSeq(c, 1, i - 1) \o EAcute \o SubSeq(c, i + 2, Len(c)) :
            i \in 1..(Len(c) - 1)}

FrameInputs == FrameCodes \cup UNION {FrameMutations(c) : c \in FrameCodes} \cup {<<>>}

\* system numbers: 0, two systems of the 19, and numbers above 19
SystemInputs == {0, 7, 19, 20, 255}

\* x and y: the limits of the range, the f64 values next to them, the
\* corners of the frames of the tests, and values near 0
XInputs ==
  {FInt(-160000), FSub(FInt(-160000), FLit(1, -35)), FInt(160000),
   FSub(FInt(160000), FLit(1, -35)), FInt(159999),
   FInt(-80000), FInt(-78000), FInt(-76800), FInt(-76400),
   FZero, FNeg(FLit(1, -60)), FLit(246913, -1)}

YInputs ==
  {FInt(-300000), FSub(FInt(-300000), FLit(1, -34)), FInt(300000),
   FSub(FInt(300000), FLit(1, -34)), FInt(299999),
   FInt(-93000), FInt(-91500), FInt(-90600), FInt(-90300),
   FZero, FNeg(FLit(1, -60)), FLit(246913, -1)}

\* the calls of from_level_xy: system 7 with every x and y, and every
\* system with an x inside the range, the last x below 160000 and the x
\* 160000
XYInputs(system) ==
  IF system = 7 THEN XInputs \X YInputs
  ELSE {FInt(-80000), FSub(FInt(160000), FLit(1, -35)), FInt(160000)}
         \X {FInt(-93000), FZero}

\* the DMS values: the degrees of the tests and of the limits of the domain,
\* with both signs; minutes up to the largest u8; seconds of the tests, at
\* 0, just above and below 0, and far below 0
DegreeInputs == {35, 135, -35, -135, 0, 19, 20, 46, 47, 122, 154, -1, -20, -122}
MinuteInputs == {0, 50, 59, 60, 255}
SecondInputs ==
  {FZero, FDiv(FInt(3549), FInt(100)), FLit(1, -30), FNeg(FLit(1, -30)),
   FInt(-79200), FInt(-446400)}

(***************************************************************************)
(* The state: the mesh value the caller holds, the last call of the API    *)
(* with its result, and the number of moves made since construction.       *)
(***************************************************************************)
VARIABLES mesh, call, moves

vars == <<mesh, call, moves, consts>>

NoMesh == [level |-> 0, code |-> <<>>]
NoCall == [op |-> "none", level |-> 0, self |-> <<>>, arg |-> <<>>, ret |-> OkC(<<>>)]

Constants ==
  [NORTHERNMOST |-> NORTHERNMOST, SOUTHERNMOST |-> SOUTHERNMOST,
   EASTERNMOST |-> EASTERNMOST, WESTERNMOST |-> WESTERNMOST,
   F1_5 |-> F1_5, F100 |-> F100,
   lat_min |-> lat_min, lat_max |-> lat_max,
   lon_min |-> lon_min, lon_max |-> lon_max,
   MESH1_LAT_DIFF |-> MESH1_LAT_DIFF, MESH1_LON_DIFF |-> MESH1_LON_DIFF,
   MESH2_LAT_DIFF |-> MESH2_LAT_DIFF, MESH2_LON_DIFF |-> MESH2_LON_DIFF,
   MESH3_LAT_DIFF |-> MESH3_LAT_DIFF, MESH3_LON_DIFF |-> MESH3_LON_DIFF,
   MESH4_LAT_DIFF |-> MESH4_LAT_DIFF, MESH4_LON_DIFF |-> MESH4_LON_DIFF,
   MESH5_LAT_DIFF |-> MESH5_LAT_DIFF, MESH5_LON_DIFF |-> MESH5_LON_DIFF,
   MESH6_LAT_DIFF |-> MESH6_LAT_DIFF, MESH6_LON_DIFF |-> MESH6_LON_DIFF]

Init == mesh = NoMesh /\ call = NoCall /\ moves = 0 /\ consts = Constants

\* the caller holds no mesh and has made no call
Idle == mesh = NoMesh /\ call = NoCall

\* a constructor has returned r
Constructed(op, L, arg, r) ==
  /\ call' = [op |-> op, level |-> L, self |-> <<>>, arg |-> arg, ret |-> r]
  /\ mesh' = IF r.kind = "Ok" THEN [level |-> L, code |-> r.code] ELSE NoMesh
  /\ moves' = 0
  /\ UNCHANGED consts

\* MeshL::new(code)
New(L, code) == Idle /\ Constructed("new", L, code, Mesh_new(L, code))

\* MeshL::from_coordinate(coord)
FromCoordinate(L, coord) ==
  Idle /\ Constructed("from_coordinate", L, coord, from_coordinate(L, coord))

\* a move in direction d has returned r: the caller goes on with the
\* neighbour; after a failure it keeps the mesh it has, and a panic ends the
\* use of the mesh
Moved(d, r) ==
  /\ call' = [op |-> d, level |-> mesh.level, self |-> mesh.code,
              arg |-> <<>>, ret |-> r]
  /\ mesh' = IF r.kind = "Ok" THEN [level |-> mesh.level, code |-> r.code]
             ELSE IF r.kind = "Err" THEN mesh ELSE NoMesh
  /\ moves' = moves + 1
  /\ UNCHANGED consts

CanMove == mesh # NoMesh /\ moves < MaxMoves

\* mesh.north_mesh(), east_mesh(), south_mesh(), west_mesh()
NorthMesh == CanMove /\ Moved("North", north_mesh(mesh.level, mesh.code))
EastMesh  == CanMove /\ Moved("East", east_mesh(mesh.level, mesh.code))
SouthMesh == CanMove /\ Moved("South", south_mesh(mesh.level, mesh.code))
WestMesh  == CanMove /\ Moved("West", west_mesh(mesh.level, mesh.code))

\* is_neighboring has returned r
Answered(other, r) ==
  /\ call' = [op |-> "is_neighboring", level |-> mesh.level,
              self |-> mesh.code, arg |-> other, ret |-> r]
  /\ mesh' = IF r.kind = "Panic" THEN NoMesh ELSE mesh
  /\ UNCHANGED <<moves, consts>>

\* mesh.is_neighboring(&other)
IsNeighboring(other) ==
  /\ mesh # NoMesh
  /\ Answered(other, is_neighboring(mesh.level, mesh.code, other))

\* the adjacency query about one of the cells around the mesh
Query ==
  /\ mesh # NoMesh
  /\ \E other \in NeighborArgs(mesh.level, mesh.code) : IsNeighboring(other)

\* the caller drops the mesh
Drop ==
  /\ call # NoCall
  /\ mesh' = NoMesh /\ call' = NoCall /\ moves' = 0
  /\ UNCHANGED consts

\* construction from any input string, and navigation
Next ==
  \/ \E L \in Levels : \E code \in NewInputs(L) : New(L, code)
  \/ NorthMesh
  \/ EastMesh
  \/ SouthMesh
  \/ WestMesh
  \/ Drop

Spec == Init /\ [][Next]_vars

\* the sample cells, navigation and the adjacency query
NextNeighbor ==
  \/ \E L \in Levels : \E code \in StartCodes(L) : New(L, code)
  \/ NorthMesh
  \/ EastMesh
  \/ SouthMesh
  \/ WestMesh
  \/ Query
  \/ Drop

SpecNeighbor == Init /\ [][NextNeighbor]_vars

\* mesh.north_east_mesh(), south_east_mesh(), south_west_mesh(),
\* north_west_mesh()
NorthEastMesh ==
  CanMove /\ Moved("NorthEast", north_east_mesh(mesh.level, mesh.code))
SouthEastMesh ==
  CanMove /\ Moved("SouthEast", south_east_mesh(mesh.level, mesh.code))
SouthWestMesh ==
  CanMove /\ Moved("SouthWest", south_west_mesh(mesh.level, mesh.code))
NorthWestMesh ==
  CanMove /\ Moved("NorthWest", north_west_mesh(mesh.level, mesh.code))

\* construction from any input string, and the diagonal moves
NextDiagonal ==
  \/ \E L \in Levels : \E code \in NewInputs(L) : New(L, code)
  \/ NorthEastMesh
  \/ SouthEastMesh
  \/ SouthWestMesh
  \/ NorthWestMesh
  \/ Drop

SpecDiagonal == Init /\ [][NextDiagonal]_vars

\* the binning of one of the coordinates (they are computed only when the
\* caller can bin one)
Bin ==
  /\ Idle
  /\ \E L \in Levels : \E coord \in CoordInputs : FromCoordinate(L, coord)

\* Coordinate::new(lat, lon)
NewCoordinate ==
  /\ Idle
  /\ \E lat \in LatInputs : \E lon \in LonInputs :
       call' = [op |-> "Coordinate::new", level |-> 0, self |-> <<>>,
                arg |-> [lat |-> lat, lon |-> lon],
                ret |-> Coordinate_new_result(lat, lon)]
  /\ UNCHANGED <<mesh, moves, consts>>

\* the construction and the binning of coordinates
NextCoord ==
  \/ Bin
  \/ NewCoordinate
  \/ Drop

SpecCoord == Init /\ [][NextCoord]_vars

\* BaseMapFrame::try_from(s)
TryFrom ==
  /\ Idle
  /\ \E s \in FrameInputs :
       call' = [op |-> "try_from", level |-> 0, self |-> <<>>, arg |-> s,
                ret |-> try_from(s)]
  /\ UNCHANGED <<mesh, moves, consts>>

\* BaseMapFrame::from_level_xy(system, level, x, y)
FromLevelXY ==
  /\ Idle
  /\ \E system \in SystemInputs : \E level \in FrameLevels :
       \E xy \in XYInputs(system) :
         call' = [op |-> "from_level_xy", level |-> 0, self |-> <<>>,
                  arg |-> [system |-> system, level |-> level,
                           x |-> xy[1], y |-> xy[2]],
                  ret |-> from_level_xy(system, level, xy[1], xy[2])]
  /\ UNCHANGED <<mesh, moves, consts>>

\* the base map frames
NextFrame ==
  \/ TryFrom
  \/ FromLevelXY
  \/ Drop

SpecFrame == Init /\ [][NextFrame]_vars

\* DMS::new(degree, minute, second).to_lat()
ToLat ==
  /\ Idle
  /\ \E degree \in DegreeInputs : \E minute \in MinuteInputs :
       \E second \in SecondInputs :
         call' = [op |-> "to_lat", level |-> 0, self |-> <<>>,
                  arg |-> [degree |-> degree, minute |-> minute, second |-> second],
                  ret |-> DMS_to_lat(degree, minute, second)]
  /\ UNCHANGED <<mesh, moves, consts>>

\* DMS::new(degree, minute, second).to_lon()
ToLon ==
  /\ Idle
  /\ \E degree \in DegreeInputs : \E minute \in MinuteInputs :
       \E second \in SecondInputs :
         call' = [op |-> "to_lon", level |-> 0, self |-> <<>>,
                  arg |-> [degree |-> degree, minute |-> minute, second |-> second],
                  ret |-> DMS_to_lon(degree, minute, second)]
  /\ UNCHANGED <<mesh, moves, consts>>

\* the conversions of DMS values
NextDMS ==
  \/ ToLat
  \/ ToLon
  \/ Drop

SpecDMS == Init /\ [][NextDMS]_vars

(***************************************************************************)
(* The properties.                                                         *)
(***************************************************************************)
IsMove == call.op \in Dirs

ParentCode(L, code) == SubSeq(code, 1, CodeLen(L - 1))

AllMovesOk(L, code) == \A d \in Dirs : move_mesh(L, d, code).kind = "Ok"

\* C1: a coordinate that from_coordinate bins into a mesh m lies in the
\* half-open cell of m: m.south() <= lat < m.north() and
\* m.west() <= lon < m.east(), at every level.
C1_Containment ==
  (call.op = "from_coordinate" /\ call.ret.kind = "Ok") =>
    LET s == south(call.level, call.ret.code)
        n == north(call.level, call.ret.code)
        w == west(call.level, call.ret.code)
        e == east(call.level, call.ret.code)
    IN  /\ s.kind = "Ok" /\ n.kind = "Ok" /\ w.kind = "Ok" /\ e.kind = "Ok"
        /\ FLe(s.val, call.arg.lat) /\ FLt(call.arg.lat, n.val)
        /\ FLe(w.val, call.arg.lon) /\ FLt(call.arg.lon, e.val)

\* C1: the south-west corner of the Level-3 cell 51354621 is binned into
\* the cell 51354610, whose north edge is the latitude of that corner.
C1_CornerBinnedBelow ==
  /\ call.op = "from_coordinate" /\ call.level = 3
  /\ call.arg = CoordOf(south_west(3, Str(<<5,1,3,5,4,6,2,1>>)))
  /\ call.ret = OkC(Str(<<5,1,3,5,4,6,1,0>>))
  /\ north(3, call.ret.code).val = call.arg.lat

\* C2: when north_mesh() of a mesh succeeds with n, south_mesh() of n
\* succeeds and gives back the code of the mesh, at every level, carries
\* into the ancestors included.
C2_NeighborSymmetry ==
  (call.op = "North" /\ call.ret.kind = "Ok") =>
    south_mesh(call.level, call.ret.code) = OkC(call.self)

\* C2: a northward move of a Level-6 mesh that carried up to the Level-1
\* cell, and the move back south.
C2_CarriedNorthAndBack ==
  /\ call.op = "North" /\ call.ret.kind = "Ok" /\ call.level = 6
  /\ SubSeq(call.ret.code, 1, 4) # SubSeq(call.self, 1, 4)
  /\ south_mesh(6, call.ret.code) = OkC(call.self)

\* the first direction in the order North, East, South, West whose
\* neighbour of a has the code b, "None" when there is none
FirstMatch(L, a, b) ==
  LET hit(d) == move_mesh(L, d, a) = OkC(b)
  IN  IF hit("North") THEN "North"
      ELSE IF hit("East") THEN "East"
      ELSE IF hit("South") THEN "South"
      ELSE IF hit("West") THEN "West"
      ELSE "None"

\* C3: a.is_neighboring(b) yields the first direction in the order North,
\* East, South, West whose neighbour of a has the code of b, None when no
\* direction matches, and never an error, for a on a domain edge too.
C3_IsNeighboringResult ==
  (call.op = "is_neighboring") =>
    call.ret = OkD(FirstMatch(call.level, call.self, call.arg))

\* C3: a mesh on the north edge of the domain is asked about its east
\* neighbour and the answer is the error of its own northward move.
C3_EdgeQueryIsError ==
  /\ call.op = "is_neighboring"
  /\ north_mesh(call.level, call.self) = ErrC("InvalidMeshCode")
  /\ east_mesh(call.level, call.self) = OkC(call.arg)
  /\ call.ret = ErrD("InvalidMeshCode")

\* four ASCII digits, the two fields inside the ranges that
\* validate_mesh1_code derives from the domain constants
LegalMesh1Code(code) ==
  /\ Len(code) = 4
  /\ AllDigits(code)
  /\ DigitsValue(SubSeq(code, 1, 2)) \in DigitsValue(lat_min) .. DigitsValue(lat_max)
  /\ DigitsValue(SubSeq(code, 3, 4)) \in DigitsValue(lon_min) .. DigitsValue(lon_max)

\* C4: Mesh1::new succeeds only on four ASCII digits whose two fields are
\* in range, every other string is rejected with InvalidMeshCode, and no
\* accessor or move of an accepted Level-1 mesh panics.
C4_Level1Validation ==
  /\ (call.op = "new" /\ call.level = 1) =>
       /\ (call.ret.kind = "Ok") = LegalMesh1Code(call.arg)
       /\ call.ret.kind # "Ok" => call.ret = ErrC("InvalidMeshCode")
  /\ (mesh.level = 1) =>
       /\ south(1, mesh.code).kind = "Ok" /\ west(1, mesh.code).kind = "Ok"
       /\ north(1, mesh.code).kind = "Ok" /\ east(1, mesh.code).kind = "Ok"
  /\ (IsMove /\ call.level = 1) => call.ret.kind # "Panic"

\* C4: Mesh1::new accepts a code with a letter in its latitude field, and
\* south() of the accepted mesh panics.
C4_LetterAccepted ==
  /\ call.op = "new" /\ call.level = 1 /\ call.ret.kind = "Ok"
  /\ call.arg[2] = 97
  /\ mesh.code = call.arg
  /\ south(1, mesh.code).kind = "Panic"

\* the suffix digit that a move in direction d changes, and whether it
\* puts the cell on the d-side edge of its parent
MovedDigit(L, d, code) ==
  IF L \in {2, 3}
  THEN IF d \in {"North", "South"} THEN code[CodeLen(L) - 1] - Ch0
       ELSE code[CodeLen(L)] - Ch0
  ELSE code[CodeLen(L)] - Ch0

OnParentEdge(L, d, code) ==
  LET x == MovedDigit(L, d, code)
  IN  IF L \in {2, 3}
      THEN IF d \in {"North", "East"} THEN x = (IF L = 2 THEN 7 ELSE 9) ELSE x = 0
      ELSE CASE d = "North" -> x \in {3, 4} [] d = "South" -> x \in {1, 2}
             [] d = "East" -> x \in {2, 4} [] d = "West" -> x \in {1, 3}

\* the d-side boundary of the covered domain and of a cell
DomainSide(d) ==
  CASE d = "North" -> OkF(NORTHERNMOST) [] d = "South" -> OkF(SOUTHERNMOST)
    [] d = "East" -> OkF(EASTERNMOST) [] d = "West" -> OkF(WESTERNMOST)

CellSide(L, d, code) ==
  CASE d = "North" -> north(L, code) [] d = "South" -> south(L, code)
    [] d = "East" -> east(L, code) [] d = "West" -> west(L, code)

\* C5: a move of a mesh of level 2..6 fails exactly when the mesh is on
\* the d-side edge of its parent and the parent's own d-move fails, which
\* is exactly when the d-side boundary of the cell is the boundary of the
\* covered domain; the failure is the error value InvalidMeshCode, never a
\* panic, and a successful move never gives the same cell.
C5_FailureIsDomainEdge ==
  (IsMove /\ call.level >= 2) =>
    /\ (call.ret.kind # "Ok") =
         (/\ OnParentEdge(call.level, call.op, call.self)
          /\ move_mesh(call.level - 1, call.op,
                       ParentCode(call.level, call.self)).kind # "Ok")
    /\ (call.ret.kind # "Ok") =
         (DomainSide(call.op) = CellSide(call.level, call.op, call.self))
    /\ call.ret.kind # "Ok" => call.ret = ErrC("InvalidMeshCode")
    /\ call.ret.kind = "Ok" => call.ret.code # call.self

\* C5: a Level-2 mesh whose Level-1 prefix holds a "." is on the north
\* edge of its parent, and its northward move panics.
C5_MovePanics ==
  /\ call.op = "North" /\ call.level = 2
  /\ call.self[2] = ChDot
  /\ OnParentEdge(2, "North", call.self)
  /\ call.ret = PanicC

\* C6: from_coordinate of a level 2..6 fails exactly when
\* Mesh1::from_coordinate fails, and a failing from_coordinate of any
\* level returns OutOfRange, never InvalidMeshCode.
C6_FailurePolicy ==
  (call.op = "from_coordinate") =>
    /\ call.level >= 2 =>
         (call.ret.kind # "Ok") = (Mesh1_from_coordinate(call.arg).kind # "Ok")
    /\ call.ret.kind # "Ok" => call.ret = ErrC("OutOfRange")

\* C6: the south-west corner of the Level-3 cell 48232359, inside the
\* domain, is a Coordinate that Mesh1::from_coordinate bins and that
\* Mesh4::from_coordinate rejects with InvalidMeshCode.
C6_InteriorIsInvalidMeshCode ==
  /\ call.op = "from_coordinate" /\ call.level = 4
  /\ call.arg = CoordOf(south_west(3, Str(<<4,8,2,3,2,3,5,9>>)))
  /\ Mesh1_from_coordinate(call.arg) = OkC(Str(<<4,8,2,3>>))
  /\ call.ret = ErrC("InvalidMeshCode")

\* the code that the carry rule gives for a move of a Level-2 or Level-3
\* mesh: its row and column digits, the maximum digit mx, and pm the
\* result of the same move of the parent
DecimalCarry(L, d, code, pm) ==
  LET P == ParentCode(L, code)
      row == code[CodeLen(L) - 1] - Ch0
      col == code[CodeLen(L)] - Ch0
      mx == IF L = 2 THEN 7 ELSE 9
  IN  CASE d = "North" -> IF row < mx THEN P \o <<Ch0 + row + 1, Ch0 + col>>
                          ELSE pm.code \o <<Ch0, Ch0 + col>>
        [] d = "South" -> IF row > 0 THEN P \o <<Ch0 + row - 1, Ch0 + col>>
                          ELSE pm.code \o <<Ch0 + mx, Ch0 + col>>
        [] d = "East"  -> IF col < mx THEN P \o <<Ch0 + row, Ch0 + col + 1>>
                          ELSE pm.code \o <<Ch0 + row, Ch0>>
        [] d = "West"  -> IF col > 0 THEN P \o <<Ch0 + row, Ch0 + col - 1>>
                          ELSE pm.code \o <<Ch0 + row, Ch0 + mx>>

\* C7: a move of a Level-2 (maximum digit 7) or Level-3 (maximum digit 9)
\* mesh keeps the parent and changes the row (north, south) or the column
\* (east, west) by one; from the maximum (north, east) or from 0 (south,
\* west) it gives the parent's neighbour in that direction followed by
\* the digit reset to 0, or to the maximum, and the other digit unchanged.
C7_DecimalCarry ==
  (IsMove /\ call.level \in {2, 3}) =>
    LET pm == move_mesh(call.level - 1, call.op, ParentCode(call.level, call.self))
    IN  (~OnParentEdge(call.level, call.op, call.self) \/ pm.kind = "Ok") =>
          call.ret = OkC(DecimalCarry(call.level, call.op, call.self, pm))

\* C7: a Level-2 mesh in row 7 moves north into row 0 of the north
\* neighbour of its Level-1 cell.
C7_NorthCarried ==
  /\ call.op = "North" /\ call.level = 2
  /\ call.self[5] = Ch0 + 7
  /\ call.ret.kind = "Ok"
  /\ SubSeq(call.ret.code, 1, 4) = Mesh1_north_mesh(SubSeq(call.self, 1, 4)).code
  /\ call.ret.code[5] = Ch0 /\ call.ret.code[6] = call.self[6]

\* the code that the quadrant rule gives for a move of a Level-4, -5 or -6
\* mesh with quadrant digit q, pm the result of the same move of the parent
QuadrantCarry(L, d, code, pm) ==
  LET P == ParentCode(L, code)
      q == code[CodeLen(L)] - Ch0
  IN  CASE d = "North" -> IF q \in {1, 2} THEN P \o <<Ch0 + q + 2>>
                          ELSE pm.code \o <<Ch0 + q - 2>>
        [] d = "South" -> IF q \in {3, 4} THEN P \o <<Ch0 + q - 2>>
                          ELSE pm.code \o <<Ch0 + q + 2>>
        [] d = "East"  -> IF q \in {1, 3} THEN P \o <<Ch0 + q + 1>>
                          ELSE pm.code \o <<Ch0 + q - 1>>
        [] d = "West"  -> IF q \in {2, 4} THEN P \o <<Ch0 + q - 1>>
                          ELSE pm.code \o <<Ch0 + q + 1>>

\* C8: a move of a Level-4, -5 or -6 mesh with quadrant digit q: north
\* from {1,2} is the same parent with q+2 and from {3,4} the parent's
\* north neighbour with q-2; south from {3,4} is q-2 and from {1,2} the
\* parent's south neighbour with q+2; east from {1,3} is q+1 and from
\* {2,4} the parent's east neighbour with q-1; west from {2,4} is q-1 and
\* from {1,3} the parent's west neighbour with q+1; 533935991 north is
\* 533935993 and 533935993 north is 533945091.
C8_QuadrantCarry ==
  /\ (IsMove /\ call.level \in {4, 5, 6}) =>
       LET pm == move_mesh(call.level - 1, call.op, ParentCode(call.level, call.self))
       IN  (~OnParentEdge(call.level, call.op, call.self) \/ pm.kind = "Ok") =>
             call.ret = OkC(QuadrantCarry(call.level, call.op, call.self, pm))
  /\ (call.op = "North" /\ call.level = 4 /\ call.self = Str(<<5,3,3,9,3,5,9,9,1>>)) =>
       call.ret = OkC(Str(<<5,3,3,9,3,5,9,9,3>>))
  /\ (call.op = "North" /\ call.level = 4 /\ call.self = Str(<<5,3,3,9,3,5,9,9,3>>)) =>
       call.ret = OkC(Str(<<5,3,3,9,4,5,0,9,1>>))

\* C8: the Level-4 mesh 533935993 moves north to 533945091.
C8_NorthFromQuadrant3 ==
  /\ call.op = "North" /\ call.level = 4
  /\ call.self = Str(<<5,3,3,9,3,5,9,9,3>>)
  /\ call.ret = OkC(Str(<<5,3,3,9,4,5,0,9,1>>))

\* the expected result of a move of a Level-1 mesh with an all-digit code:
\* the field changed by one, InvalidMeshCode when it leaves its range
Mesh1Moved(d, code) ==
  LET lat == DigitsValue(SubSeq(code, 1, 2))
      lon == DigitsValue(SubSeq(code, 3, 4))
      lat2 == CASE d = "North" -> lat + 1 [] d = "South" -> lat - 1 [] OTHER -> lat
      lon2 == CASE d = "East" -> lon + 1 [] d = "West" -> lon - 1 [] OTHER -> lon
  IN  IF /\ lat2 \in DigitsValue(lat_min) .. DigitsValue(lat_max)
         /\ lon2 \in DigitsValue(lon_min) .. DigitsValue(lon_max)
      THEN OkC(<<Ch0 + (lat2 \div 10), Ch0 + (lat2 % 10),
                 Ch0 + (lon2 \div 10), Ch0 + (lon2 % 10)>>)
      ELSE ErrC("InvalidMeshCode")

\* C9: north_mesh and south_mesh of a Level-1 mesh change only the
\* latitude field by +1 and -1, east_mesh and west_mesh only the longitude
\* field; the move fails with InvalidMeshCode exactly when the changed
\* field leaves the legal range; "3022" south fails and "3122" south is
\* "3022".
C9_Level1Neighbors ==
  (IsMove /\ call.level = 1) =>
    /\ call.ret.kind # "Panic"
    /\ AllDigits(call.self) => call.ret = Mesh1Moved(call.op, call.self)
    /\ (call.op = "South" /\ call.self = Str(<<3,0,2,2>>)) => call.ret.kind = "Err"
    /\ (call.op = "South" /\ call.self = Str(<<3,1,2,2>>)) =>
         call.ret = OkC(Str(<<3,0,2,2>>))

\* C9: a Level-1 mesh with a letter in its longitude field moves east and
\* the move panics.
C9_MovePanics ==
  /\ call.op = "East" /\ call.level = 1
  /\ call.self[4] = 97
  /\ call.ret = PanicC

\* the result of two moves in a row
TwoMoves(L, d1, d2, code) ==
  LET a == move_mesh(L, d1, code)
  IN  IF a.kind = "Ok" THEN move_mesh(L, d2, a.code) ELSE a

\* the four diagonal neighbours of a mesh and the cells two steps away
DiagonalCells(L, code) ==
  OkCodes({TwoMoves(L, d[1], d[2], code) :
             d \in {<<"North", "East">>, <<"North", "West">>,
                    <<"South", "East">>, <<"South", "West">>}})

TwoStepCells(L, code) == OkCodes({TwoMoves(L, d, d, code) : d \in Dirs})

\* C10: for a mesh all of whose four orthogonal neighbours exist,
\* is_neighboring is None for each of its four diagonal neighbours and for
\* the cells two steps away to the north, east, south and west.
C10_AdjacencyNarrowing ==
  ( /\ call.op = "is_neighboring"
    /\ AllMovesOk(call.level, call.self)
    /\ call.arg \in DiagonalCells(call.level, call.self)
                      \cup TwoStepCells(call.level, call.self) ) =>
    call.ret = OkD("None")

\* C10: a Level-5 mesh with four neighbours is asked about its north-east
\* diagonal neighbour, and the answer is None.
C10_DiagonalIsNone ==
  /\ call.op = "is_neighboring" /\ call.level = 5
  /\ AllMovesOk(5, call.self)
  /\ TwoMoves(5, "North", "East", call.self) = OkC(call.arg)
  /\ call.ret = OkD("None")

\* the suffix rule of the levels 2..6: two digits 0..7, two digits 0..9,
\* one digit 1..4
SuffixOk(L, code) ==
  CASE L = 2 -> code[5] \in Ch0 .. (Ch0 + 7) /\ code[6] \in Ch0 .. (Ch0 + 7)
    [] L = 3 -> code[7] \in Ch0 .. (Ch0 + 9) /\ code[8] \in Ch0 .. (Ch0 + 9)
    [] OTHER -> code[CodeLen(L)] \in (Ch0 + 1) .. (Ch0 + 4)

\* the code has the length of level L, its prefix is accepted by the
\* validation of level L - 1, and its suffix obeys the rule of level L
AcceptedByRule(L, code) ==
  /\ Len(code) = CodeLen(L)
  /\ Mesh_new(L - 1, SubSeq(code, 1, CodeLen(L - 1))).kind = "Ok"
  /\ SuffixOk(L, code)

\* C11: at the levels 2..6, new(code) succeeds exactly when the code has
\* the length 6, 8, 9, 10, 11, its prefix of length 4, 6, 8, 9, 10 is
\* accepted by the validation of the level above, and its suffix is two
\* digits 0..7, two digits 0..9 or one digit 1..4; otherwise new returns
\* InvalidMeshCode.
C11_CodeValidity ==
  (call.op = "new" /\ call.level >= 2) =>
    /\ (call.ret.kind = "Ok") = AcceptedByRule(call.level, call.arg)
    /\ call.ret.kind # "Ok" => call.ret = ErrC("InvalidMeshCode")

\* C11: Mesh2::new of a six-byte string whose fourth character has two
\* bytes, so that code[0..4] splits it, panics.
C11_SplitCharacterPanics ==
  /\ call.op = "new" /\ call.level = 2
  /\ Len(call.arg) = 6
  /\ SubSeq(call.arg, 4, 5) = EAcute
  /\ call.ret = PanicC

\* the Level-1 domain of the doc comment of Mesh1 and of its tests: four
\* digits, the latitude field in 30..71 and the longitude field in 18..49
DocumentedMesh1Code(code) ==
  /\ Len(code) = 4
  /\ AllDigits(code)
  /\ DigitsValue(SubSeq(code, 1, 2)) \in 30 .. 71
  /\ DigitsValue(SubSeq(code, 3, 4)) \in 18 .. 49

\* C12: Mesh1::new accepts the corner codes 7149, 3049, 3018 and 7118 and
\* rejects the codes one cell outside them: it accepts exactly the codes
\* whose latitude field is in 30..71 and whose longitude field is in
\* 18..49, with the bounds it computes from the domain constants.
C12_Level1Domain ==
  (call.op = "new" /\ call.level = 1) =>
    (call.ret.kind = "Ok") = DocumentedMesh1Code(call.arg)

\* C12: Mesh1::new rejects the north-east corner code 7149 of the tests.
C12_CornerCodeRejected ==
  /\ call.op = "new" /\ call.level = 1
  /\ call.arg = Str(<<7,1,4,9>>)
  /\ call.ret = ErrC("InvalidMeshCode")

\* C13: the code() of the mesh that new(code) returns is the input string
\* itself, at every level.
C13_NewRoundTrip ==
  (call.op = "new" /\ call.ret.kind = "Ok") =>
    /\ mesh.level = call.level
    /\ Mesh_code(mesh) = call.arg

\* C13: a Level-4 mesh in a quadrant other than 1 is constructed and its
\* code() is the input.
C13_Level4Constructed ==
  /\ call.op = "new" /\ call.level = 4 /\ call.ret.kind = "Ok"
  /\ call.arg[9] # Ch0 + 1
  /\ Mesh_code(mesh) = call.arg

\* the two orthogonal steps of a diagonal move, in the order of the trait
FirstStep(d) == IF d \in {"NorthEast", "NorthWest"} THEN "North" ELSE "South"
SecondStep(d) == IF d \in {"NorthEast", "SouthEast"} THEN "East" ELSE "West"

\* the eight cells around the mesh exist
Interior(L, code) ==
  /\ AllMovesOk(L, code)
  /\ \A d \in DiagonalDirs : TwoMoves(L, FirstStep(d), SecondStep(d), code).kind = "Ok"

\* C14: for a mesh with its eight surrounding cells, north then east gives
\* the code of east then north, and likewise south/east, south/west and
\* north/west, also when both steps carry into the parent or further up.
C14_DiagonalOrder ==
  (call.op \in DiagonalDirs /\ Interior(call.level, call.self)) =>
    /\ call.ret.kind = "Ok"
    /\ call.ret = TwoMoves(call.level, SecondStep(call.op), FirstStep(call.op),
                           call.self)

\* C14: a Level-6 mesh in the north-east corner of its Level-1 cell moves
\* north-east, both steps carry up to Level 1, and east then north gives
\* the same mesh.
C14_CornerBothCarry ==
  /\ call.op = "NorthEast" /\ call.level = 6 /\ call.ret.kind = "Ok"
  /\ Interior(6, call.self)
  /\ call.ret.code[2] # call.self[2] /\ call.ret.code[4] # call.self[4]
  /\ call.ret = TwoMoves(6, "East", "North", call.self)

\* C15: a diagonal move is its first step followed, on the result, by its
\* second step (north then east, south then east, south then west, north
\* then west); it fails exactly when one of the two steps fails, with the
\* failure of that step.
C15_DiagonalComposition ==
  (call.op \in DiagonalDirs) =>
    LET first == move_mesh(call.level, FirstStep(call.op), call.self)
    IN  /\ first.kind # "Ok" => call.ret = first
        /\ first.kind = "Ok" =>
             call.ret = move_mesh(call.level, SecondStep(call.op), first.code)

\* C15: the north move of a mesh on the north edge of the domain fails, and
\* its north-east move returns that error.
C15_FirstStepFails ==
  /\ call.op = "NorthEast"
  /\ north_mesh(call.level, call.self) = ErrC("InvalidMeshCode")
  /\ east_mesh(call.level, call.self).kind = "Ok"
  /\ call.ret = ErrC("InvalidMeshCode")

\* a <= b and a < b for two extents that were computed without a panic
ExtLe(a, b) == a.kind = "Ok" /\ b.kind = "Ok" /\ FLe(a.val, b.val)
ExtLt(a, b) == a.kind = "Ok" /\ b.kind = "Ok" /\ FLt(a.val, b.val)

\* the south-west corner of the child is in the half-open parent cell
ChildStartsInParent(L, c) ==
  LET P == ParentCode(L, c)
  IN  /\ ExtLe(south(L - 1, P), south(L, c)) /\ ExtLt(south(L, c), north(L - 1, P))
      /\ ExtLe(west(L - 1, P), west(L, c)) /\ ExtLt(west(L, c), east(L - 1, P))

\* the north and east edges of the child do not pass those of the parent
ChildEndsInParent(L, c) ==
  LET P == ParentCode(L, c)
  IN  /\ ExtLe(north(L, c), north(L - 1, P))
      /\ ExtLe(east(L, c), east(L - 1, P))

\* C16: the prefix of the code of a mesh of level 2..6 is a valid code of
\* the level above, and the mesh lies wholly inside the parent built from
\* it: parent.south <= south < parent.north, parent.west <= west <
\* parent.east, north <= parent.north and east <= parent.east.
C16_ParentConsistency ==
  (mesh.level >= 2) =>
    /\ Mesh_new(mesh.level - 1, ParentCode(mesh.level, mesh.code)).kind = "Ok"
    /\ ChildStartsInParent(mesh.level, mesh.code)
    /\ ChildEndsInParent(mesh.level, mesh.code)

\* C16: a Level-2 mesh with a digit-only code in the top row of its parent
\* has a north edge beyond the north edge of the parent.
C16_ChildPassesParent ==
  /\ call.op = "new" /\ mesh.level = 2
  /\ AllDigits(mesh.code)
  /\ mesh.code[5] = Ch0 + 7
  /\ ExtLt(north(1, ParentCode(2, mesh.code)), north(2, mesh.code))

\* the height and the width of a cell of level 4, 5, 6: half of those of
\* its parent
HalfHeight(L) ==
  CASE L = 4 -> consts.MESH4_LAT_DIFF [] L = 5 -> consts.MESH5_LAT_DIFF
    [] L = 6 -> consts.MESH6_LAT_DIFF

HalfWidth(L) ==
  CASE L = 4 -> consts.MESH4_LON_DIFF [] L = 5 -> consts.MESH5_LON_DIFF
    [] L = 6 -> consts.MESH6_LON_DIFF

\* 1 when x is in the upper half of a cell that starts at lo, 0 otherwise
HalfBit(x, lo, half) == IF FLt(x, FAdd(lo, half)) THEN 0 ELSE 1

\* the quadrant digit of the coordinate in the parent cell P of level L - 1
QuadrantDigit(L, coord, P) ==
  2 * HalfBit(coord.lat, south(L - 1, P).val, HalfHeight(L)) + 1
    + HalfBit(coord.lon, west(L - 1, P).val, HalfWidth(L))

\* the decoding of the quadrant digit of a mesh of level 4, 5, 6
QuadrantDecoded(L, c) ==
  LET P == ParentCode(L, c)
      q == c[CodeLen(L)] - Ch0
  IN  /\ south(L, c).kind = "Ok" /\ west(L, c).kind = "Ok"
      /\ south(L, c) = IF q \in {1, 2} THEN south(L - 1, P)
                       ELSE OkF(FAdd(south(L - 1, P).val, HalfHeight(L)))
      /\ west(L, c) = IF q \in {1, 3} THEN west(L - 1, P)
                      ELSE OkF(FAdd(west(L - 1, P).val, HalfWidth(L)))

\* C17: at the levels 4, 5, 6 from_coordinate appends to the code of the
\* parent the digit 2 * lat_bit + 1 + lon_bit, where lat_bit (lon_bit) is 1
\* exactly when the coordinate is in the northern (eastern) half of the
\* parent cell; and south() and west() decode the digit: 1, 2 have the
\* parent's south and 3, 4 add the half height, 1, 3 have the parent's west
\* and 2, 4 add the half width.
C17_QuadrantDigit ==
  (call.op = "from_coordinate" /\ call.level >= 4) =>
    LET parent == from_coordinate(call.level - 1, call.arg)
    IN  parent.kind = "Ok" =>
          /\ call.ret = OkC(parent.code
                              \o <<Ch0 + QuadrantDigit(call.level, call.arg, parent.code)>>)
          /\ QuadrantDecoded(call.level, call.ret.code)

\* C17: the south-west corner of the Level-5 cell 5135462123 is on the
\* line that halves the Level-3 cell 51354621 from west to east, and
\* Mesh4::from_coordinate appends the digit 1 of the south-west quadrant.
C17_EasternHalfBinnedWest ==
  /\ call.op = "from_coordinate" /\ call.level = 4
  /\ call.arg = CoordOf(south_west(5, Str(<<5,1,3,5,4,6,2,1,2,3>>)))
  /\ call.ret = OkC(Str(<<5,1,3,5,4,6,2,1,1>>))
  /\ QuadrantDigit(4, call.arg, Str(<<5,1,3,5,4,6,2,1>>)) = 2

\* floor(x) of an f64 x >= 0 as a number, and a number below 100 written
\* with two decimal digits
FloorNat(x) == BToNat(FIntPart(FFloor(x)))

TwoDigits(n) == <<Ch0 + (n \div 10), Ch0 + (n % 10)>>

Within(lo, x, hi) == ~FLt(x, lo) /\ ~FLt(hi, x)

LatInRange(lat) == Within(SOUTHERNMOST, lat, NORTHERNMOST)
LonInRange(lon) == Within(WESTERNMOST, lon, EASTERNMOST)

C20_AccessorsTotal ==
  mesh # NoMesh =>
    /\ center(mesh.level, mesh.code).kind = "Ok"
    /\ north_east(mesh.level, mesh.code).kind = "Ok"
    /\ south_east(mesh.level, mesh.code).kind = "Ok"
    /\ south_west(mesh.level, mesh.code).kind = "Ok"
    /\ north_west(mesh.level, mesh.code).kind = "Ok"

\* C20 witness: the caller holds a mesh whose code has digits only, north()
\* returns a latitude above NORTHERNMOST, and north_east() panics.
C20_NorthEdgeCornerPanics ==
  /\ mesh # NoMesh
  /\ AllDigits(mesh.code)
  /\ north(mesh.level, mesh.code).kind = "Ok"
  /\ FLt(NORTHERNMOST, north(mesh.level, mesh.code).val)
  /\ north_east(mesh.level, mesh.code).kind = "Panic"

(***************************************************************************)
(* C21  the height and the width of a cell                                 *)
(***************************************************************************)
Height(L) ==
  CASE L = 1 -> MESH1_LAT_DIFF [] L = 2 -> MESH2_LAT_DIFF
    [] L = 3 -> MESH3_LAT_DIFF [] L = 4 -> MESH4_LAT_DIFF
    [] L = 5 -> MESH5_LAT_DIFF [] L = 6 -> MESH6_LAT_DIFF

Width(L) ==
  CASE L = 1 -> MESH1_LON_DIFF [] L = 2 -> MESH2_LON_DIFF
    [] L = 3 -> MESH3_LON_DIFF [] L = 4 -> MESH4_LON_DIFF
    [] L = 5 -> MESH5_LON_DIFF [] L = 6 -> MESH6_LON_DIFF

\* the number of cells of level L along one axis of a cell of level L - 1
Fanout(L) == CASE L = 2 -> 8 [] L = 3 -> 10 [] L \in 4..6 -> 2

\* the constants nest: Fanout(L) heights (widths) of level L make one height
\* (width) of level L - 1
LevelsNest ==
  \A L \in 2..6 :
    /\ FMul(FLit(Fanout(L), 0), Height(L)) = Height(L - 1)
    /\ FMul(FLit(Fanout(L), 0), Width(L)) = Width(L - 1)

\* b - a is d
Apart(a, b, d) == a.kind = "Ok" /\ b.kind = "Ok" /\ FSub(b.val, a.val) = d

\* C21: for every mesh the caller holds, north() - south() is the height of
\* its level and east() - west() is the width of its level, whatever the
\* digits of the code are; and 8 heights (widths) of Level 2 make one of
\* Level 1, 10 of Level 3 make one of Level 2, and 2 of each of Levels 4, 5
\* and 6 make one of the level above.
C21_ExtentConsistency ==
  /\ LevelsNest
  /\ mesh # NoMesh =>
       /\ Apart(south(mesh.level, mesh.code), north(mesh.level, mesh.code),
                Height(mesh.level))
       /\ Apart(west(mesh.level, mesh.code), east(mesh.level, mesh.code),
                Width(mesh.level))

\* C21 witness: the caller holds a mesh whose code has digits only, and
\* north() - south() is not the height of its level.
C21_HeightOffByRounding ==
  /\ mesh # NoMesh
  /\ AllDigits(mesh.code)
  /\ north(mesh.level, mesh.code).kind = "Ok"
  /\ south(mesh.level, mesh.code).kind = "Ok"
  /\ FSub(north(mesh.level, mesh.code).val, south(mesh.level, mesh.code).val)
       # Height(mesh.level)

(***************************************************************************)
(* C22  from the code to a coordinate and back                             *)
(***************************************************************************)
\* the sample cells of the level of the call
CellsOfCall == {lc[2] : lc \in {x \in CoordCells : x[1] = call.level}}

\* the call has binned the coordinate r, which an accessor returned
Binned(r) == r.kind = "Ok" /\ call.arg = CoordOf(r)

\* C22: from_coordinate of the centre of a mesh, at the level of the mesh,
\* succeeds with the code of the mesh; so does from_coordinate of its
\* south-west corner; and from_coordinate of its north-east corner, when it
\* succeeds, gives another cell.
C22_RoundTrip ==
  call.op = "from_coordinate" =>
    \A code \in CellsOfCall :
      /\ center(call.level, code).kind = "Ok"
      /\ south_west(call.level, code).kind = "Ok"
      /\ Binned(center(call.level, code)) => call.ret = OkC(code)
      /\ Binned(south_west(call.level, code)) => call.ret = OkC(code)
      /\ Binned(north_east(call.level, code)) /\ call.ret.kind = "Ok" =>
           call.ret.code # code

\* C22 witness: from_coordinate has binned the south-west corner of a sample
\* cell, at the level of the cell, into a cell with another code.
C22_SouthWestBinnedElsewhere ==
  /\ call.op = "from_coordinate"
  /\ \E code \in CellsOfCall :
       /\ Binned(south_west(call.level, code))
       /\ call.ret.kind = "Ok" /\ call.ret.code # code

(***************************************************************************)
(* C23  the classification of frame codes                                  *)
(***************************************************************************)
\* the character at position i of s is between the characters lo and hi
CharIn(s, i, lo, hi) == lo <= s[i] /\ s[i] <= hi

\* s starts with the four characters of a Level-50000 code
Starts50000(s) ==
  /\ Len(s) >= 4
  /\ CharIn(s, 1, Ch0, Ch0 + 1) /\ CharIn(s, 2, Ch0, Ch0 + 9)
  /\ CharIn(s, 3, ChA, ChT) /\ CharIn(s, 4, ChA, ChA + 7)

\* s starts with the six characters of a Level-5000 code
Starts5000(s) ==
  /\ Len(s) >= 6 /\ Starts50000(s)
  /\ CharIn(s, 5, Ch0, Ch0 + 9) /\ CharIn(s, 6, Ch0, Ch0 + 9)

\* the form of the codes of each level
HasForm(level, s) ==
  CASE level = "Level50000" -> Len(s) = 4 /\ Starts50000(s)
    [] level = "Level5000" -> Len(s) = 6 /\ Starts5000(s)
    [] level = "Level2500" ->
         Len(s) = 7 /\ Starts5000(s) /\ CharIn(s, 7, Ch0 + 1, Ch0 + 4)
    [] level = "Level1000" ->
         /\ Len(s) = 8 /\ Starts5000(s)
         /\ CharIn(s, 7, Ch0, Ch0 + 4) /\ CharIn(s, 8, ChA, ChA + 4)
    [] level = "Level500" ->
         /\ Len(s) = 8 /\ Starts5000(s)
         /\ CharIn(s, 7, Ch0, Ch0 + 9) /\ CharIn(s, 8, Ch0, Ch0 + 9)

\* C23: try_from(s) returns the variant of a level exactly when s has the
\* form of the level: [0-1][0-9][A-T][A-H] for Level 50000, that and two
\* digits for Level 5000, the six characters and a digit 1..4 for Level
\* 2500, the six characters, a digit 0..4 and a letter A..E for Level 1000,
\* the six characters and two digits for Level 500; no string has two of
\* the forms; the variant holds s unchanged; every other string gets
\* InvalidFrameCode.
C23_FrameClassification ==
  call.op = "try_from" =>
    /\ \A level \in FrameLevels :
         (call.ret.kind = "Ok" /\ call.ret.level = level) = HasForm(level, call.arg)
    /\ Cardinality({level \in FrameLevels : HasForm(level, call.arg)}) <= 1
    /\ call.ret.kind = "Ok" => call.ret.code = call.arg
    /\ call.ret.kind # "Ok" => call.ret = ErrFrame("InvalidFrameCode")

\* C23 witness: try_from has been given a string of seven characters that
\* ends with the digit 0 and differs from a Level-2500 code in that digit
\* only, and has returned InvalidFrameCode.
C23_QuadrantZeroRejected ==
  /\ call.op = "try_from"
  /\ Len(call.arg) = 7 /\ call.arg[7] = Ch0
  /\ HasForm("Level2500", [call.arg EXCEPT ![7] = Ch0 + 1])
  /\ call.ret = ErrFrame("InvalidFrameCode")

(***************************************************************************)
(* C24  from_level_xy and extent                                           *)
(***************************************************************************)
\* the call is from_level_xy with a system of 0..19 and x and y in range
InRangeCall ==
  /\ call.op = "from_level_xy"
  /\ call.arg.system \in 0..19
  /\ InHalfOpen(-160000, call.arg.x, 160000)
  /\ InHalfOpen(-300000, call.arg.y, 300000)

\* the extent e contains the point (x, y), and has the width and the height
\* of the level
ExtentHolds(e, level, x, y) ==
  /\ e.kind = "Ok"
  /\ InHalfOpen(e.left, x, e.right)
  /\ InHalfOpen(e.bottom, y, e.top)
  /\ e.right - e.left = Frame_width(level)
  /\ e.top - e.bottom = Frame_height(level)

\* C24: for a system of 0..19, every level and every (x, y) with
\* -160000 <= x < 160000 and -300000 <= y < 300000, from_level_xy returns a
\* frame of the level asked for, and the extent of the frame contains the
\* point (left <= x < right, bottom <= y < top) and is as wide and as high
\* as width() and height() say.
C24_FrameContainsPoint ==
  InRangeCall =>
    /\ call.ret.kind = "Ok"
    /\ call.ret.level = call.arg.level
    /\ ExtentHolds(extent(call.ret), call.ret.level, call.arg.x, call.arg.y)

\* C24 witness: from_level_xy has been called for system 7 with an x between
\* 159999 and 160000 and a y in range, and has not returned a frame.
C24_LastXHasNoFrame ==
  /\ InRangeCall
  /\ call.arg.system = 7
  /\ FLt(FInt(159999), call.arg.x)
  /\ call.ret.kind # "Ok"

(***************************************************************************)
(* C30  the failures of from_level_xy                                      *)
(***************************************************************************)
\* C30: for every system number, every level and every x and y,
\* from_level_xy returns XOutOfRange when x is outside [-160000, 160000),
\* otherwise YOutOfRange when y is outside [-300000, 300000), and otherwise
\* a frame or InvalidFrameCode; it never panics.
C30_FailuresAreValues ==
  call.op = "from_level_xy" =>
    IF ~InHalfOpen(-160000, call.arg.x, 160000)
      THEN call.ret = ErrFrame("XOutOfRange")
    ELSE IF ~InHalfOpen(-300000, call.arg.y, 300000)
      THEN call.ret = ErrFrame("YOutOfRange")
    ELSE \/ call.ret.kind = "Ok"
         \/ call.ret = ErrFrame("InvalidFrameCode")

\* C30 witness: from_level_xy has been called with a system number above 19,
\* a level below 5000 and x and y well inside the range, and has panicked.
C30_UnknownSystemPanics ==
  /\ call.op = "from_level_xy"
  /\ call.arg.system > 19
  /\ call.arg.level \in {"Level2500", "Level1000", "Level500"}
  /\ InHalfOpen(-159999, call.arg.x, 159999)
  /\ InHalfOpen(-299999, call.arg.y, 299999)
  /\ call.ret = PanicFrame

(***************************************************************************)
(* C25  DMS::to_lat and DMS::to_lon                                        *)
(***************************************************************************)
Abs(i) == IF i < 0 THEN -i ELSE i

\* |degree| + minute / 60 + second / 3600 of the DMS value of the call
DmsSum ==
  FAdd(FAdd(FInt(Abs(call.arg.degree)), FDiv(FInt(call.arg.minute), FInt(60))),
       FDiv(call.arg.second, FInt(3600)))

\* the angle of the DMS value of the call: the sum, negated for a negative
\* degree
DmsAngle == IF call.arg.degree >= 0 THEN DmsSum ELSE FNeg(DmsSum)

\* the angle is in the range of the axis of the call
DmsInRange ==
  IF call.op = "to_lat" THEN LatInRange(DmsAngle) ELSE LonInRange(DmsAngle)

\* the call returns the angle when it is in the range, and OutOfRange
\* otherwise
DmsValidated == call.ret = IF DmsInRange THEN OkF(DmsAngle) ELSE ErrF

\* C25 as stated: for degree >= 0, to_lat() (to_lon()) computes
\* degree + minute/60 + second/3600 and returns it exactly when it is in the
\* inclusive range of the latitude (longitude), else OutOfRange; for
\* degree < 0 the value is -(|degree| + minute/60 + second/3600), and every
\* DMS value with a negative degree is rejected with OutOfRange.
C25_DmsAsStated ==
  call.op \in {"to_lat", "to_lon"} =>
    /\ call.arg.degree >= 0 => DmsValidated
    /\ call.arg.degree < 0 => call.ret = ErrF

\* C25 amended: for every degree, to_lat() (to_lon()) computes
\* degree + minute/60 + second/3600, negated as a whole for a negative
\* degree, and returns it exactly when it is in the inclusive range, else
\* OutOfRange; a DMS value with a negative degree and a second that is not
\* negative is rejected.
C25_DmsConversion ==
  call.op \in {"to_lat", "to_lon"} =>
    /\ DmsValidated
    /\ call.arg.degree < 0 /\ ~FIsNeg(call.arg.second) => call.ret = ErrF

\* C25 witness: to_lat() of a DMS value with a negative degree and a
\* negative second has returned a latitude.
C25_NegativeDegreeAccepted ==
  /\ call.op = "to_lat"
  /\ call.arg.degree < 0 /\ FIsNeg(call.arg.second)
  /\ call.ret.kind = "Ok"
  /\ LatInRange(call.ret.val)

(***************************************************************************)
(* C26  every mesh has a code that new accepts                             *)
(***************************************************************************)
\* new of the level L accepts the code
NewAccepts(L, code) == Mesh_new(L, code) = OkC(code)

\* the accessors mesh1(), mesh2(), ... of a mesh of the level L return
AncestorsOk(L, code) ==
  \A k \in 1..(L - 1) :
    Len(code) >= CodeLen(k) /\ NewAccepts(k, SubSeq(code, 1, CodeLen(k)))

\* south(), west(), north() and east() return
BoundariesOk(L, code) ==
  /\ south(L, code).kind = "Ok" /\ west(L, code).kind = "Ok"
  /\ north(L, code).kind = "Ok" /\ east(L, code).kind = "Ok"

\* C26: every mesh the caller obtains, from new, from from_coordinate of a
\* Coordinate (those on the northern and eastern limits of the domain
\* included) or from a successful move, has a code that new of its level
\* accepts, and its parent accessors and its boundary accessors do not
\* panic.
C26_ValidityInvariant ==
  mesh # NoMesh =>
    /\ NewAccepts(mesh.level, mesh.code)
    /\ AncestorsOk(mesh.level, mesh.code)
    /\ BoundariesOk(mesh.level, mesh.code)

\* C26 witness: Mesh1::from_coordinate of the north-east corner of the
\* domain has returned a mesh, and Mesh1::new rejects the code of the mesh.
C26_LimitCodeRejectedByNew ==
  /\ call.op = "from_coordinate" /\ call.level = 1
  /\ call.arg = DomainNorthEast
  /\ call.ret.kind = "Ok"
  /\ mesh = [level |-> 1, code |-> call.ret.code]
  /\ Mesh1_new(mesh.code) = ErrC("InvalidMeshCode")

(***************************************************************************)
(* C27  the moves and the geometry                                         *)
(***************************************************************************)
\* two boundary values are returned and are the same f64
SameF(a, b) == a.kind = "Ok" /\ b.kind = "Ok" /\ a.val = b.val

\* the boundary value a is returned and is the f64 x
IsF(a, x) == a.kind = "Ok" /\ a.val = x

\* the cell n lies against the cell m on the side d of m, in line with it
Adjoins(L, d, m, n) ==
  CASE d = "North" -> SameF(south(L, n), north(L, m)) /\ SameF(west(L, n), west(L, m))
    [] d = "East" -> SameF(west(L, n), east(L, m)) /\ SameF(south(L, n), south(L, m))
    [] d = "South" -> SameF(north(L, n), south(L, m)) /\ SameF(west(L, n), west(L, m))
    [] d = "West" -> SameF(east(L, n), west(L, m)) /\ SameF(south(L, n), south(L, m))

\* the displacement of a move in the direction d, in cells east and north
Dx(d) == CASE d = "East" -> 1 [] d = "West" -> -1 [] OTHER -> 0
Dy(d) == CASE d = "North" -> 1 [] d = "South" -> -1 [] OTHER -> 0

\* the south-west corner of n is that of m displaced by the move d
Displaced(L, d, m, n) ==
  /\ west(L, m).kind = "Ok" /\ south(L, m).kind = "Ok"
  /\ IsF(west(L, n), FAdd(west(L, m).val, FMul(FInt(Dx(d)), Width(L))))
  /\ IsF(south(L, n), FAdd(south(L, m).val, FMul(FInt(Dy(d)), Height(L))))

\* C27: when a move of a mesh m to the north, east, south or west succeeds
\* with n, n lies against m on that side: n.south() = m.north() and
\* n.west() = m.west() for north_mesh, e.west() = m.east() and
\* e.south() = m.south() for east_mesh, and symmetrically for south_mesh and
\* west_mesh; so the south-west corner of n is that of m plus the
\* displacement times the width and the height of the level.
C27_MovesAgreeWithGeometry ==
  (call.op \in Dirs /\ call.ret.kind = "Ok") =>
    /\ Adjoins(call.level, call.op, call.self, call.ret.code)
    /\ Displaced(call.level, call.op, call.self, call.ret.code)

\* C27 witness: a move to the north of a mesh with a digit-only code has
\* succeeded, and south() of the mesh reached is not north() of the mesh
\* left.
C27_NorthEdgeNotShared ==
  /\ call.op = "North" /\ call.ret.kind = "Ok"
  /\ AllDigits(call.self)
  /\ south(call.level, call.ret.code).kind = "Ok"
  /\ north(call.level, call.self).kind = "Ok"
  /\ south(call.level, call.ret.code).val # north(call.level, call.self).val


(***************************************************************************)
(* C28  the cells of one level tile the domain                             *)
(***************************************************************************)
\* the four boundary values of the cell are returned
HasExtent(L, c) ==
  /\ south(L, c).kind = "Ok" /\ north(L, c).kind = "Ok"
  /\ west(L, c).kind = "Ok" /\ east(L, c).kind = "Ok"

\* the half-open intervals [alo, ahi) and [blo, bhi) have a value in common
Meet(alo, ahi, blo, bhi) ==
  /\ FLt(alo.val, ahi.val) /\ FLt(blo.val, bhi.val)
  /\ FLt(alo.val, bhi.val) /\ FLt(blo.val, ahi.val)

\* the half-open extents [south, north) x [west, east) of the cells a and b
\* have a point in common
Overlap(L, a, b) ==
  /\ HasExtent(L, a) /\ HasExtent(L, b)
  /\ Meet(south(L, a), north(L, a), south(L, b), north(L, b))
  /\ Meet(west(L, a), east(L, a), west(L, b), east(L, b))

\* the cells a and b have the same four boundary values
SameExtent(L, a, b) ==
  /\ SameF(south(L, a), south(L, b)) /\ SameF(north(L, a), north(L, b))
  /\ SameF(west(L, a), west(L, b)) /\ SameF(east(L, a), east(L, b))

\* C28: two valid codes of one level that differ as strings have disjoint
\* half-open extents [south, north) x [west, east), and equal codes have
\* equal extents, so the mesh that contains a coordinate is unique at each
\* level.
C28_CellsTile ==
  call.op = "is_neighboring" =>
    /\ HasExtent(call.level, call.self) /\ HasExtent(call.level, call.arg)
    /\ IF call.self = call.arg
         THEN SameExtent(call.level, call.self, call.arg)
         ELSE ~Overlap(call.level, call.self, call.arg)

\* C28 witness: the mesh has been asked about a cell with another code,
\* and the half-open extents of the two cells have a point in common.
C28_DistinctCellsOverlap ==
  /\ call.op = "is_neighboring"
  /\ call.self # call.arg
  /\ Overlap(call.level, call.self, call.arg)


(***************************************************************************)
(* C29  the symmetry of the adjacency query                                *)
(***************************************************************************)
\* the direction opposite to d
Opposite(d) ==
  CASE d = "North" -> "South" [] d = "South" -> "North"
    [] d = "East" -> "West" [] d = "West" -> "East"

\* C29: for valid meshes a and b of one level, when a.is_neighboring(b)
\* reports North, East, South or West, b.is_neighboring(a) reports the
\* opposite direction, and a.is_neighboring(a) reports None; for meshes on
\* an edge of the domain too.
C29_AdjacencySymmetry ==
  call.op = "is_neighboring" =>
    /\ (call.ret.kind = "Ok" /\ call.ret.dir \in Dirs) =>
         is_neighboring(call.level, call.arg, call.self)
           = OkD(Opposite(call.ret.dir))
    /\ (call.self = call.arg) => call.ret = OkD("None")

\* C29 witness: the mesh has the other mesh as its north neighbour, and the
\* other mesh, on the north edge of the domain, answers the query about
\* the mesh with the error of its own northward move.
C29_EdgeAnswerIsError ==
  /\ call.op = "is_neighboring"
  /\ call.ret = OkD("North")
  /\ north_mesh(call.level, call.arg) = ErrC("InvalidMeshCode")
  /\ is_neighboring(call.level, call.arg, call.self) = ErrD("InvalidMeshCode")

====
